---- MODULE Spec2Model ----
(***************************************************************************)
(* Verification model of gomlx/go-xla.                                     *)
(*                                                                         *)
(*  - StableHLO builder (pkg/stablehlo/ops.go): functions, values,         *)
(*    statements, operation construction and the shape-specialising        *)
(*    rewrites of DynamicBroadcastInDim / DynamicReshape.                  *)
(*  - PJRT plugin table (pkg/pjrt/dynamiclib_base.go): loadNamedPlugin     *)
(*    under muPlugins.                                                     *)
(*                                                                         *)
(* Specifications:                                                         *)
(*   SpecOps     operation construction over the closure tree              *)
(*   SpecDyn     shape literals and the dynamic-shape rewrites             *)
(*   SpecPlugin  goroutines calling loadNamedPlugin                        *)
(***************************************************************************)
EXTENDS Integers, Sequences, FiniteSets, TLC

\* ---------------------------------------------------------------- bounds
\* Statements the functions may hold together in SpecOps.
MaxOpsStmts == 1
\* Statements the functions may hold together in SpecDyn.
MaxDynStmts == 3
\* Longest shape vector (1-D integer tensor) used in SpecDyn.
MaxLen == 3
\* loadNamedPlugin calls issued in SpecPlugin.
MaxCalls == 3
\* Arena and pool operations issued in SpecArena.
MaxArenaOps == 4
\* Arenas created in SpecArena.
MaxArenas == 2
\* Statements appended after the constants in SpecFold.
MaxFoldStmts == 1
\* Latest time, in seconds, at which a checkInstallOrFileLock call starts
\* in SpecFlock.
MaxStart == 1

\* ------------------------------------------------------------- variables
VARIABLES
    Statements,     \* Function.Statements, per function
    Returned,       \* Function.Returned, per function
    Values,         \* every *Value minted so far; a value is its index
    lastCall,       \* the last construction call and what it returned
    lastExtract,    \* the last call of the shape extractor and what it returned
    loadedPlugins,  \* pjrt.loadedPlugins: name -> plugin object
    muPlugins,      \* pjrt.muPlugins: holder goroutine, or NoOne
    plugins,        \* every Plugin object created: [name, path]
    pc,             \* per goroutine: position inside loadNamedPlugin
    req,            \* per goroutine: the name passed to loadNamedPlugin
    ret,            \* per goroutine: results returned so far
    nLoads,         \* per library path: successful loadPlugin calls
    nCalls,         \* per goroutine: number of calls issued
    arenas,         \* every arenaContainer created; an arena is its index
    pools,          \* arenaPools.pools: per pool index and P, the list of arenas
    arenaCall,      \* the last arena or pool call and what it did
    clock,          \* installer: the time in seconds
    lockFile,       \* installer: who holds <target>.lock, whether the target exists, who wrote it
    callers,        \* installer: per caller, its position, timers and result
    client,         \* the PJRT client: destroyed or not, the buffers it tracks
    buffers,        \* per buffer, its handle and the runtime releases of its memory
    bufCall,        \* the last client or buffer call and what it did
    heads,          \* pool.Pool.heads: per P, the first node of its list
    nodeNext,       \* per node created by Pool.New, its next pointer
    workers,        \* per goroutine using the pool: position, P, locals, nodes held
    poolCall        \* the last Get or Put that returned

builderVars == <<Statements, Returned, Values, lastCall, lastExtract>>
pluginVars  == <<loadedPlugins, muPlugins, plugins, pc, req, ret, nLoads, nCalls>>
arenaVars   == <<arenas, pools, arenaCall>>
flockVars   == <<clock, lockFile, callers>>
bufferVars  == <<client, buffers, bufCall>>
linkVars    == <<heads, nodeNext, workers, poolCall>>
vars        == <<Statements, Returned, Values, lastCall, lastExtract,
                 loadedPlugins, muPlugins, plugins, pc, req, ret, nLoads, nCalls,
                 arenas, pools, arenaCall, clock, lockFile, callers,
                 client, buffers, bufCall, heads, nodeNext, workers, poolCall>>

\* ------------------------------------------------------------ sequences
RECURSIVE Prod(_)
Prod(s) == IF s = <<>> THEN 1 ELSE Head(s) * Prod(Tail(s))

RECURSIVE SeqsUpTo(_, _)
\* All sequences over S of length 0..n.
SeqsUpTo(S, n) ==
    IF n = 0 THEN {<<>>}
    ELSE LET shorter == SeqsUpTo(S, n - 1)
         IN  shorter \cup {Append(s, x) : s \in {t \in shorter : Len(t) = n - 1}, x \in S}

Range(s) == {s[i] : i \in 1..Len(s)}

Repeat(x, n) == [i \in 1..n |-> x]

\* s with its k-th entry set to v (s[k] = v in the source).
SetAt(s, k, v) == [i \in 1..Len(s) |-> IF i = k THEN v ELSE s[i]]

\* --------------------------------------------------------------- shapes
\* shapes.DimUnknown: the sentinel of a dimension not known at build time.
DimUnknown == -1

\* shapes.Shape restricted to array shapes: dtype, dimensions, bounds.
\* DimensionBounds = <<>> stands for a nil slice.
MakeShape(dtype, dims) == [DType |-> dtype, Dimensions |-> dims, DimensionBounds |-> <<>>]

Rank(shape) == Len(shape.Dimensions)

\* Shape.Size(): the product of the dimensions.
Size(shape) == Prod(shape.Dimensions)

IsInt(dtype) == dtype = "i32"

\* ------------------------------------------------------------ functions
NoFn == "none"
\* The function tree of TestInnerMostFunction: main, a closure of main, a
\* closure of that closure, and a second closure of main.
Fns == {"main", "closure", "nested", "sibling"}

Parent(f) ==
    CASE f = "main"    -> NoFn
      [] f = "closure" -> "main"
      [] f = "nested"  -> "closure"
      [] f = "sibling" -> "main"

RECURSIVE IsAncestorOf(_, _)
\* TRUE iff a is f or one of f's ancestors.
IsAncestorOf(a, f) ==
    IF f = NoFn THEN FALSE
    ELSE IF a = f THEN TRUE
    ELSE IsAncestorOf(a, Parent(f))

\* Number of parameters of each function when used as a region.
NumInputs(f) == IF f = "main" THEN 0 ELSE 2

\* --------------------------------------------------------------- values
\* A *Value is its index in Values. Value.fn, Value.shape, and Value.stmt as
\* the index of the defining statement in its function (0 for a parameter).
ValueIds == 1..Len(Values)
FnOf(v) == Values[v].fn
ShapeOf(v) == Values[v].shape
DimsOf(v) == Values[v].shape.Dimensions

NewParam(f, dtype, dims) ==
    [fn |-> f, shape |-> MakeShape(dtype, dims), stmt |-> 0, outputIndex |-> 0]

\* The statement of function f that produced value v, as
\* TryExtractConstantShape finds it: the first statement one of whose
\* outputs is v; 0 when none does (a parameter, or a value of another
\* function).
DefiningStmt(f, v) ==
    LET hits == {i \in 1..Len(Statements[f]) : v \in Range(Statements[f][i].Outputs)}
    IN  IF hits = {} THEN 0 ELSE CHOOSE i \in hits : \A j \in hits : i <= j

TotalStmts == Len(Statements["main"]) + Len(Statements["closure"])
              + Len(Statements["nested"]) + Len(Statements["sibling"])

\* -------------------------------------------------------------- effects
\* What one construction call does: the error it returns, whether it
\* aborts (a Go panic), and the statement it appended, if any.
\* A statement to append: [OpType, Inputs, shapes (one per output), Attributes].
NoAttrs == [none |-> TRUE]

Fail(f) == [err |-> TRUE, panic |-> FALSE, fn |-> f, new |-> <<>>]
Panic(f) == [err |-> FALSE, panic |-> TRUE, fn |-> f, new |-> <<>>]
\* fn.addOp / fn.addMultiOp followed by a nil error.
Added(f, opType, outShapes, inputs, attrs) ==
    [err |-> FALSE, panic |-> FALSE, fn |-> f,
     new |-> <<[OpType |-> opType, Inputs |-> inputs, shapes |-> outShapes,
                Attributes |-> attrs]>>]
\* fn.addOp followed by a later error return of the same call.
AddedThenFail(f, opType, outShapes, inputs, attrs) ==
    [Added(f, opType, outShapes, inputs, attrs) EXCEPT !.err = TRUE]

\* fn.addOp / fn.addMultiOp: mint the output values, append the statement.
addOp(eff) ==
    LET f    == eff.fn
        s    == eff.new[1]
        n    == Len(Values)
        k    == Len(s.shapes)
        outs == [i \in 1..k |-> n + i]
        stmt == [OpType |-> s.OpType, Inputs |-> s.Inputs, Outputs |-> outs,
                 Attributes |-> s.Attributes]
    IN  /\ Statements' = [Statements EXCEPT ![f] = Append(@, stmt)]
        /\ Values' = Values \o [i \in 1..k |->
                        [fn |-> f, shape |-> s.shapes[i],
                         stmt |-> Len(Statements[f]) + 1, outputIndex |-> i - 1]]

\* The state change of one call with effect eff.
Apply(op, args, eff) ==
    /\ IF eff.new = <<>>
       THEN UNCHANGED <<Statements, Values>>
       ELSE addOp(eff)
    /\ lastCall' = [op |-> op, args |-> args, fn |-> eff.fn,
                    err |-> eff.err, panic |-> eff.panic,
                    before |-> Statements,
                    out |-> IF eff.err \/ eff.panic \/ eff.new = <<>> THEN <<>>
                            ELSE [i \in 1..Len(eff.new[1].shapes) |-> Len(Values) + i]]
    /\ UNCHANGED <<Returned, lastExtract>>

NoCall == [op |-> "none", args |-> <<>>, fn |-> NoFn, err |-> FALSE,
           panic |-> FALSE, before |-> [f \in Fns |-> <<>>], out |-> <<>>]

\* No extraction yet. An extraction keeps the function and value it was
\* asked for, its result, and the statements and values before the call.
NoExtraction == [fn |-> NoFn, value |-> 0, result |-> <<>>, stmts |-> <<>>, values |-> <<>>]

\* ------------------------------------------------------ shape inference
\* Two extents are compatible when one is unknown or both are equal.
DimCompat(a, b) == a < 0 \/ b < 0 \/ a = b
\* The known side of two compatible extents.
DimMerge(a, b) == IF a >= 0 THEN a ELSE IF b >= 0 THEN b ELSE DimUnknown

\* shapeinference.AdjustAxisToRank: a negative axis counts from the end.
AdjustAxisToRank(axis, rank) ==
    LET a == IF axis < 0 THEN axis + rank ELSE axis
    IN  [ok |-> a >= 0 /\ a < rank, axis |-> a]

\* shapeinference.BinaryOp: equal dtype and rank, pairwise compatible
\* extents; each output extent is the known side.
BinaryOpShape(l, r) ==
    LET ok == /\ l.DType = r.DType
              /\ Rank(l) = Rank(r)
              /\ \A i \in 1..Rank(l) : DimCompat(l.Dimensions[i], r.Dimensions[i])
    IN  [ok |-> ok,
         shape |-> IF ok
                   THEN MakeShape(l.DType,
                            [i \in 1..Rank(l) |-> DimMerge(l.Dimensions[i], r.Dimensions[i])])
                   ELSE l]

\* shapeinference.Compare: as a binary operation, with a boolean result.
CompareShape(l, r) ==
    LET b == BinaryOpShape(l, r)
    IN  [ok |-> b.ok, shape |-> [b.shape EXCEPT !.DType = "bool"]]

\* shapeinference.BroadcastInDim: one target axis per operand axis, each in
\* range and used once; the operand extent is 1, unknown, or the target's.
BroadcastInDimShapeOK(operand, target, axesMapping) ==
    /\ operand.DType = target.DType
    /\ Len(axesMapping) = Rank(operand)
    /\ \A i \in 1..Len(axesMapping) :
          /\ axesMapping[i] >= 0 /\ axesMapping[i] < Rank(target)
          /\ \A j \in 1..Len(axesMapping) : i # j => axesMapping[i] # axesMapping[j]
    /\ \A i \in 1..Len(axesMapping) :
          LET od == operand.Dimensions[i]
              td == target.Dimensions[axesMapping[i] + 1]
          IN  od = 1 \/ od < 0 \/ td < 0 \/ od = td

RECURSIVE SumDims(_)
\* The extent of a concatenation: the sum, unknown if any part is unknown.
SumDims(ds) ==
    IF ds = <<>> THEN 0
    ELSE LET rest == SumDims(Tail(ds))
         IN  IF Head(ds) < 0 \/ rest < 0 THEN DimUnknown ELSE Head(ds) + rest

\* shapeinference.Concatenate: equal dtype and rank (at least 1), a valid
\* axis, compatible extents off the axis; the axis extent is the sum.
ConcatenateShape(shps, axis) ==
    LET first == shps[1]
        adj   == AdjustAxisToRank(axis, Rank(first))
        ok    == /\ Rank(first) >= 1
                 /\ adj.ok
                 /\ \A k \in 1..Len(shps) :
                       /\ shps[k].DType = first.DType
                       /\ Rank(shps[k]) = Rank(first)
                       /\ \A i \in 1..Rank(first) :
                             i # adj.axis + 1 =>
                                DimCompat(shps[k].Dimensions[i], first.Dimensions[i])
    IN  [ok |-> ok,
         shape |-> IF ok
                   THEN MakeShape(first.DType,
                          [i \in 1..Rank(first) |->
                             IF i = adj.axis + 1
                             THEN SumDims([k \in 1..Len(shps) |-> shps[k].Dimensions[i]])
                             ELSE first.Dimensions[i]])
                   ELSE first]

\* Windowed extent: (in + pad_lo + pad_hi - dil*(k-1) - 1) / stride + 1,
\* here with stride 1 and dilation 1.
WindowedDim(in, pad, k) ==
    IF in < 0 THEN DimUnknown ELSE (in + pad[1] + pad[2] - (k - 1) - 1) + 1

\* shapeinference.Convolve for the layout the model uses (input and output
\* [batch, channels, spatial...], kernel [out, in, spatial...]): ranks match
\* and are at least 3, one padding per spatial axis, channels agree, and
\* every output extent is positive.
ConvolveShape(input, kernel, paddings) ==
    LET rank == Rank(input)
        out  == [i \in 1..rank |->
                   IF i = 1 THEN input.Dimensions[1]
                   ELSE IF i = 2 THEN kernel.Dimensions[1]
                   ELSE WindowedDim(input.Dimensions[i], paddings[i - 2],
                                    kernel.Dimensions[i])]
        ok   == /\ rank >= 3
                /\ Rank(kernel) = rank
                /\ input.DType = kernel.DType
                /\ Len(paddings) = rank - 2
                /\ DimCompat(input.Dimensions[2], kernel.Dimensions[2])
                /\ \A i \in 3..rank : out[i] > 0 \/ out[i] = DimUnknown
    IN  [ok |-> ok, shape |-> IF ok THEN MakeShape(input.DType, out) ELSE input]

\* shapeinference.ReduceWindow with unit windows: as many initial values as
\* inputs, a reducer taking two parameters per input, one padding per axis.
ReduceWindowShape(inputs, initialValues, reductionFn, paddings) ==
    LET first == inputs[1]
        ok == /\ Len(initialValues) = Len(inputs)
              /\ NumInputs(reductionFn) = 2 * Len(inputs)
              /\ Len(paddings) = Rank(first)
              /\ \A k \in 1..Len(inputs) :
                    /\ Rank(inputs[k]) = Rank(first)
                    /\ inputs[k].DType = initialValues[k].DType
    IN  [ok |-> ok,
         shapes |-> IF ok
                    THEN [k \in 1..Len(inputs) |->
                            MakeShape(inputs[k].DType,
                               [i \in 1..Rank(first) |->
                                  WindowedDim(inputs[k].Dimensions[i], paddings[i], 1)])]
                    ELSE <<>>]

\* newTensorLiteralFromFlatAndDimensions: the flat values must fill the
\* dimensions exactly.
TensorLiteralOK(flatLen, dims) == flatLen = Prod(dims)

\* innerMostFunction: the deepest function among the operands' functions,
\* every other operand's function being one of its ancestors; NoFn when two
\* operands belong to functions unrelated by ancestry.
innerMostFunction(operands) ==
    LET fs   == {FnOf(operands[i]) : i \in 1..Len(operands)}
        deep == {f \in fs : \A g \in fs : IsAncestorOf(g, f)}
    IN  IF deep = {} THEN NoFn ELSE CHOOSE f \in deep : TRUE

\* --------------------------------------------- operation construction
\* Each operator below is one construction function of ops.go, returning
\* the effect of the call in the current state.

\* (*Function).binaryOp
binaryOp(fn, lhs, rhs) ==
    IF Returned[fn] THEN Fail(fn)
    ELSE IF FnOf(lhs) # fn \/ FnOf(rhs) # fn THEN Fail(fn)
    ELSE LET inf == BinaryOpShape(ShapeOf(lhs), ShapeOf(rhs))
         IN  IF ~inf.ok THEN Fail(fn)
             ELSE Added(fn, "Add", <<inf.shape>>, <<lhs, rhs>>, NoAttrs)

\* unaryOp without the test of fn.Returned.
unaryOpAfterReturn(fn, operand) ==
    IF FnOf(operand) # fn THEN Fail(fn)
    ELSE Added(fn, "Abs", <<ShapeOf(operand)>>, <<operand>>, NoAttrs)
\* (*Function).unaryOp
unaryOp(fn, operand) ==
    IF Returned[fn] THEN Fail(fn)
    ELSE IF FnOf(operand) # fn THEN Fail(fn)
    ELSE Added(fn, "Abs", <<ShapeOf(operand)>>, <<operand>>, NoAttrs)

\* Compare
CompareOp(lhs, rhs) ==
    LET fn == FnOf(lhs)
    IN  IF Returned[fn] THEN Fail(fn)
        ELSE IF FnOf(rhs) # fn THEN Fail(fn)
        ELSE LET inf == CompareShape(ShapeOf(lhs), ShapeOf(rhs))
             IN  IF ~inf.ok THEN Fail(fn)
                 ELSE Added(fn, "Compare", <<inf.shape>>, <<lhs, rhs>>,
                            [comparison_direction |-> "EQ"])

\* Convolution, with the batch axis of the input as the one configurable
\* axis. The kernel's function is not compared with the input's.
ConvolutionOp(input, kernel, paddings, inputBatchAxis) ==
    LET fn          == FnOf(input)
        rank        == Rank(ShapeOf(input))
        rankSpatial == rank - 2
        pads        == IF Len(paddings) = 0 THEN Repeat(<<0, 0>>, rankSpatial)
                       ELSE paddings
    IN  IF Returned[fn] THEN Fail(fn)
        ELSE IF rankSpatial < 0 THEN Panic(fn)
        ELSE IF ~AdjustAxisToRank(inputBatchAxis, rank).ok THEN Fail(fn)
        ELSE LET inf == ConvolveShape(ShapeOf(input), ShapeOf(kernel), pads)
             IN  IF ~inf.ok THEN Fail(fn)
                 ELSE IF ~TensorLiteralOK(2 * Len(pads), <<rankSpatial, 2>>)
                      THEN AddedThenFail(fn, "Convolution", <<inf.shape>>,
                                         <<input, kernel>>, NoAttrs)
                      ELSE Added(fn, "Convolution", <<inf.shape>>, <<input, kernel>>,
                                 [padding |-> pads])

\* MultiReduceWindow
MultiReduceWindowOp(inputs, initialValues, reductionFn, paddings) ==
    IF Len(inputs) = 0 THEN Fail(NoFn)
    ELSE
    LET fn   == FnOf(inputs[1])
        rank == Rank(ShapeOf(inputs[1]))
        pads == IF Len(paddings) = 0 THEN Repeat(<<0, 0>>, rank) ELSE paddings
    IN  IF Returned[fn] THEN Fail(fn)
        ELSE IF \E i \in 1..Len(inputs) : FnOf(inputs[i]) # fn THEN Fail(fn)
        ELSE IF \E i \in 1..Len(initialValues) : FnOf(initialValues[i]) # fn THEN Fail(fn)
        ELSE IF Parent(reductionFn) # fn THEN Fail(fn)
        ELSE LET inf == ReduceWindowShape([i \in 1..Len(inputs) |-> ShapeOf(inputs[i])],
                            [i \in 1..Len(initialValues) |-> ShapeOf(initialValues[i])],
                            reductionFn, pads)
             IN  IF ~inf.ok THEN Fail(fn)
                 ELSE IF ~TensorLiteralOK(2 * Len(pads), <<rank, 2>>)
                      THEN AddedThenFail(fn, "ReduceWindow", inf.shapes,
                                         inputs \o initialValues,
                                         [reductionFn |-> reductionFn])
                      ELSE Added(fn, "ReduceWindow", inf.shapes, inputs \o initialValues,
                                 [reductionFn |-> reductionFn, padding |-> pads])

\* SelectAndScatter. No shape inference runs: the output takes the input's
\* shape, and the paddings reach the tensor literal unchecked, after the
\* statement has been appended.
SelectAndScatterOp(input, scatterSource, initialValue, selectFn, scatterFn, paddings) ==
    LET fn   == FnOf(input)
        rank == Rank(ShapeOf(input))
        pads == IF Len(paddings) = 0 THEN Repeat(<<0, 0>>, rank) ELSE paddings
    IN  IF Returned[fn] THEN Fail(fn)
        ELSE IF FnOf(scatterSource) # fn THEN Fail(fn)
        ELSE IF FnOf(initialValue) # fn THEN Fail(fn)
        ELSE IF Parent(selectFn) # fn THEN Fail(fn)
        ELSE IF Parent(scatterFn) # fn THEN Fail(fn)
        ELSE IF ~TensorLiteralOK(2 * Len(pads), <<rank, 2>>)
             THEN AddedThenFail(fn, "SelectAndScatter", <<ShapeOf(input)>>,
                                <<input, scatterSource, initialValue>>,
                                [selectFn |-> selectFn, scatterFn |-> scatterFn])
             ELSE Added(fn, "SelectAndScatter", <<ShapeOf(input)>>,
                        <<input, scatterSource, initialValue>>,
                        [selectFn |-> selectFn, scatterFn |-> scatterFn, padding |-> pads])

\* --------------------------------------------- constant-shape extraction
\* The result of an extraction: the integers, or failure.
NotConst == [ok |-> FALSE, vals |-> <<>>, panic |-> FALSE]
Extracted(vals) == [ok |-> TRUE, vals |-> vals, panic |-> FALSE]
\* The extraction aborts (a Go run-time panic).
ExtractPanics == [ok |-> FALSE, vals |-> <<>>, panic |-> TRUE]

\* A tensor literal: [dtype, dims, value], value an integer for a scalar
\* and the flat sequence otherwise. toInt accepts the integer types only.
extractIntegersFromTensorLiteral(tl) ==
    IF tl.dims = <<>>
    THEN IF IsInt(tl.dtype) THEN Extracted(<<tl.value>>) ELSE NotConst
    ELSE IF Len(tl.dims) # 1 THEN NotConst
    ELSE IF tl.dims[1] > 0 /\ ~IsInt(tl.dtype) THEN NotConst
    ELSE Extracted(SubSeq(tl.value, 1, tl.dims[1]))

RECURSIVE tryExtractConstantShape(_, _)
RECURSIVE extractInputs(_, _)
RECURSIVE extractInputsPartial(_, _)

\* The loop of tryExtractConcatenatedShape: every input must extract.
extractInputs(fn, inputs) ==
    IF inputs = <<>> THEN Extracted(<<>>)
    ELSE LET dimValues == tryExtractConstantShape(fn, Head(inputs))
         IN  IF ~dimValues.ok THEN NotConst
             ELSE LET rest == extractInputs(fn, Tail(inputs))
                  IN  IF ~rest.ok THEN NotConst
                      ELSE Extracted(dimValues.vals \o rest.vals)

tryExtractConcatenatedShape(fn, concatStmt) ==
    IF "dimension" \in DOMAIN concatStmt.Attributes /\ concatStmt.Attributes.dimension # 0
    THEN NotConst
    ELSE extractInputs(fn, concatStmt.Inputs)

\* The loop of tryExtractConcatenatedShapePartial: an input that does not
\* extract contributes -1 once per element (once if its length is unknown).
extractInputsPartial(fn, inputs) ==
    IF inputs = <<>> THEN [result |-> <<>>, allExtracted |-> TRUE, anyExtracted |-> FALSE]
    ELSE LET input     == Head(inputs)
             dimValues == tryExtractConstantShape(fn, input)
             inputSize == IF Rank(ShapeOf(input)) = 1 /\ DimsOf(input)[1] > 0
                          THEN DimsOf(input)[1] ELSE 1
             rest      == extractInputsPartial(fn, Tail(inputs))
         IN  IF ~dimValues.ok
             THEN [result |-> Repeat(-1, inputSize) \o rest.result,
                   allExtracted |-> FALSE, anyExtracted |-> rest.anyExtracted]
             ELSE [result |-> dimValues.vals \o rest.result,
                   allExtracted |-> rest.allExtracted, anyExtracted |-> TRUE]

tryExtractConcatenatedShapePartial(fn, concatStmt) ==
    IF "dimension" \in DOMAIN concatStmt.Attributes /\ concatStmt.Attributes.dimension # 0
    THEN [result |-> <<>>, allExtracted |-> FALSE, anyExtracted |-> FALSE]
    ELSE extractInputsPartial(fn, concatStmt.Inputs)

\* A one-element operand is replicated to the static length of the output;
\* a longer one is returned as it is.
tryExtractBroadcastInDimConstant(fn, broadcastStmt) ==
    IF Len(broadcastStmt.Inputs) # 1 THEN NotConst
    ELSE LET operandValues == tryExtractConstantShape(fn, broadcastStmt.Inputs[1])
             outputShape   == ShapeOf(broadcastStmt.Outputs[1])
         IN  IF ~operandValues.ok THEN NotConst
             ELSE IF Len(operandValues.vals) = 1
             THEN IF Rank(outputShape) # 1 THEN NotConst
                  ELSE IF outputShape.Dimensions[1] < 0 THEN NotConst
                  ELSE Extracted(Repeat(operandValues.vals[1], outputShape.Dimensions[1]))
             ELSE IF Len(operandValues.vals) > 1 THEN operandValues
             ELSE NotConst

tryExtractDynamicBroadcastConstant(fn, broadcastStmt) ==
    IF Len(broadcastStmt.Inputs) # 2 THEN NotConst
    ELSE LET operandValues == tryExtractConstantShape(fn, broadcastStmt.Inputs[1])
             outputShape   == tryExtractConstantShape(fn, broadcastStmt.Inputs[2])
             fromType      == ShapeOf(broadcastStmt.Outputs[1])
         IN  IF ~operandValues.ok THEN NotConst
             ELSE IF Len(operandValues.vals) = 1 /\ outputShape.ok /\ Len(outputShape.vals) > 0
             THEN IF outputShape.vals[1] <= 0 THEN NotConst
                  ELSE Extracted(Repeat(operandValues.vals[1], outputShape.vals[1]))
             ELSE IF Len(operandValues.vals) = 1 /\ Rank(fromType) = 1
                     /\ fromType.Dimensions[1] > 0
             THEN Extracted(Repeat(operandValues.vals[1], fromType.Dimensions[1]))
             ELSE NotConst

\* tryExtractGatherConstant: one index value, inside the operand.
tryExtractGatherConstant(fn, gatherStmt) ==
    IF Len(gatherStmt.Inputs) # 2 THEN NotConst
    ELSE LET operandValues == tryExtractConstantShape(fn, gatherStmt.Inputs[1])
             indexValues   == tryExtractConstantShape(fn, gatherStmt.Inputs[2])
         IN  IF ~operandValues.ok THEN NotConst
             ELSE IF ~indexValues.ok THEN NotConst
             ELSE IF Len(indexValues.vals) # 1 THEN NotConst
             ELSE LET index == indexValues.vals[1]
                  IN  IF index < 0 \/ index >= Len(operandValues.vals) THEN NotConst
                      ELSE Extracted(<<operandValues.vals[index + 1]>>)

\* tryExtractMultiplyConstant: scalar, element-wise, or one side of length 1.
tryExtractMultiplyConstant(fn, multiplyStmt) ==
    IF Len(multiplyStmt.Inputs) # 2 THEN NotConst
    ELSE LET lhsValues == tryExtractConstantShape(fn, multiplyStmt.Inputs[1])
             rhsValues == tryExtractConstantShape(fn, multiplyStmt.Inputs[2])
             l == lhsValues.vals
             r == rhsValues.vals
         IN  IF ~lhsValues.ok \/ ~rhsValues.ok THEN NotConst
             ELSE IF Len(l) = 1 /\ Len(r) = 1 THEN Extracted(<<l[1] * r[1]>>)
             ELSE IF Len(l) = Len(r) THEN Extracted([i \in 1..Len(l) |-> l[i] * r[i]])
             ELSE IF Len(l) = 1 THEN Extracted([i \in 1..Len(r) |-> l[1] * r[i]])
             ELSE IF Len(r) = 1 THEN Extracted([i \in 1..Len(l) |-> l[i] * r[1]])
             ELSE NotConst

\* Go's integer division for a non-zero divisor: the quotient truncated
\* toward zero.
quo(a, b) ==
    LET q == (IF a < 0 THEN -a ELSE a) \div (IF b < 0 THEN -b ELSE b)
    IN  IF (a < 0) # (b < 0) THEN -q ELSE q

\* The division without the test of the divisor: dividing by zero aborts.
tryExtractDivideConstantUnchecked(fn, divideStmt) ==
    IF Len(divideStmt.Inputs) # 2 THEN NotConst
    ELSE LET lhsValues == tryExtractConstantShape(fn, divideStmt.Inputs[1])
             rhsValues == tryExtractConstantShape(fn, divideStmt.Inputs[2])
         IN  IF ~lhsValues.ok \/ ~rhsValues.ok THEN NotConst
             ELSE IF Len(lhsValues.vals) # 1 \/ Len(rhsValues.vals) # 1 THEN NotConst
             ELSE IF rhsValues.vals[1] = 0 THEN ExtractPanics
             ELSE Extracted(<<quo(lhsValues.vals[1], rhsValues.vals[1])>>)
\* tryExtractDivideConstant: both sides of length 1, the divisor not zero.
tryExtractDivideConstant(fn, divideStmt) ==
    IF Len(divideStmt.Inputs) # 2 THEN NotConst
    ELSE LET lhsValues == tryExtractConstantShape(fn, divideStmt.Inputs[1])
             rhsValues == tryExtractConstantShape(fn, divideStmt.Inputs[2])
         IN  IF ~lhsValues.ok \/ ~rhsValues.ok THEN NotConst
             ELSE IF Len(lhsValues.vals) # 1 \/ Len(rhsValues.vals) # 1 THEN NotConst
             ELSE IF rhsValues.vals[1] = 0 THEN NotConst
             ELSE Extracted(<<quo(lhsValues.vals[1], rhsValues.vals[1])>>)

\* TryExtractConstantShape, for the operations the model builds: the first
\* statement of fn that lists the value among its outputs decides.
tryExtractConstantShape(fn, shapeValue) ==
    LET i == DefiningStmt(fn, shapeValue)
    IN  IF i = 0 THEN NotConst
        ELSE LET stmt == Statements[fn][i]
             IN  CASE stmt.OpType = "Constant" ->
                        extractIntegersFromTensorLiteral(stmt.Attributes.value)
                   [] stmt.OpType = "Concatenate" ->
                        tryExtractConcatenatedShape(fn, stmt)
                   [] stmt.OpType = "Reshape" ->
                        IF Len(stmt.Inputs) > 0
                        THEN tryExtractConstantShape(fn, stmt.Inputs[1])
                        ELSE NotConst
                   [] stmt.OpType = "BroadcastInDim" ->
                        tryExtractBroadcastInDimConstant(fn, stmt)
                   [] stmt.OpType = "DynamicBroadcastInDim" ->
                        tryExtractDynamicBroadcastConstant(fn, stmt)
                   [] stmt.OpType = "Gather" ->
                        tryExtractGatherConstant(fn, stmt)
                   [] stmt.OpType = "Multiply" ->
                        tryExtractMultiplyConstant(fn, stmt)
                   [] stmt.OpType = "Divide" ->
                        tryExtractDivideConstant(fn, stmt)
                   [] OTHER -> NotConst

\* The search of DynamicBroadcastInDim and DynamicReshape for a Concatenate
\* that produced the shape operand, and its partial extraction.
partialShapeOf(fn, shapeValue) ==
    LET i == DefiningStmt(fn, shapeValue)
    IN  IF i = 0 \/ Statements[fn][i].OpType # "Concatenate"
        THEN [has |-> FALSE, shape |-> <<>>]
        ELSE LET partial == tryExtractConcatenatedShapePartial(fn, Statements[fn][i])
             IN  IF partial.anyExtracted
                 THEN [has |-> TRUE, shape |-> partial.result]
                 ELSE [has |-> FALSE, shape |-> <<>>]

\* ------------------------------------------ static operations and constants
\* Reshape: the sizes are compared only when no extent of the operand or
\* of the target is negative.
ReshapeOp(operand, shape) ==
    LET fn          == FnOf(operand)
        hasSymbolic == \/ \E i \in 1..Rank(ShapeOf(operand)) : DimsOf(operand)[i] < 0
                       \/ \E i \in 1..Rank(shape) : shape.Dimensions[i] < 0
    IN  IF Returned[fn] THEN Fail(fn)
        ELSE IF ShapeOf(operand).DType # shape.DType THEN Fail(fn)
        ELSE IF ~hasSymbolic /\ Size(ShapeOf(operand)) # Size(shape) THEN Fail(fn)
        ELSE Added(fn, "Reshape", <<shape>>, <<operand>>, NoAttrs)

\* BroadcastInDim
BroadcastInDimOp(operand, target, axesMapping) ==
    LET fn == FnOf(operand)
    IN  IF Returned[fn] THEN Fail(fn)
        ELSE IF ~BroadcastInDimShapeOK(ShapeOf(operand), target, axesMapping) THEN Fail(fn)
        ELSE Added(fn, "BroadcastInDim", <<target>>, <<operand>>,
                   [broadcast_dimensions |-> axesMapping])

\* A one-dimensional i32 constant holding the given values.
ConstantOp(fn, flat) ==
    IF Returned[fn] THEN Fail(fn)
    ELSE Added(fn, "Constant", <<MakeShape("i32", <<Len(flat)>>)>>, <<>>,
               [value |-> [dtype |-> "i32", dims |-> <<Len(flat)>>, value |-> flat]])

\* A binary operation of the given type: Multiply and Divide call binaryOp.
binaryOpOf(opType, fn, lhs, rhs) ==
    LET eff == binaryOp(fn, lhs, rhs)
    IN  IF eff.new = <<>> THEN eff
        ELSE [eff EXCEPT !.new = <<[eff.new[1] EXCEPT !.OpType = opType]>>]

\* shapeinference.Gather for the gather of single elements of a vector:
\* a rank-1 operand, integer indices of rank 0 or 1, one output element
\* per index.
GatherShape(operand, startIndices) ==
    [ok    |-> Rank(operand) = 1 /\ IsInt(startIndices.DType) /\ Rank(startIndices) <= 1,
     shape |-> MakeShape(operand.DType, startIndices.Dimensions)]

\* Gather
GatherOp(operand, startIndices) ==
    LET fn  == FnOf(operand)
        inf == GatherShape(ShapeOf(operand), ShapeOf(startIndices))
    IN  IF Returned[fn] THEN Fail(fn)
        ELSE IF FnOf(startIndices) # fn THEN Fail(fn)
        ELSE IF ~inf.ok THEN Fail(fn)
        ELSE Added(fn, "Gather", <<inf.shape>>, <<operand, startIndices>>,
                   [slice_sizes |-> <<1>>])

\* Concatenate
ConcatenateOp(axis, operands) ==
    IF Len(operands) = 0 THEN Fail(NoFn)
    ELSE
    LET fn  == FnOf(operands[1])
        inf == ConcatenateShape([i \in 1..Len(operands) |-> ShapeOf(operands[i])], axis)
        adj == AdjustAxisToRank(axis, Rank(ShapeOf(operands[1])))
    IN  IF Returned[fn] THEN Fail(fn)
        ELSE IF \E i \in 1..Len(operands) : FnOf(operands[i]) # fn THEN Fail(fn)
        ELSE IF ~inf.ok THEN Fail(fn)
        ELSE IF ~adj.ok THEN Fail(fn)
        ELSE Added(fn, "Concatenate", <<inf.shape>>, operands, [dimension |-> adj.axis])

\* ------------------------------------------------ DynamicBroadcastInDim
\* The default extent of an unknown dimension.
DefaultBound == 128
\* The range of the conservative bound.
MinBound == 2048
MaxBound == 65536
\* The extent written when a concrete target does not fit the operand.
InvalidDim == -3

SetMax(S) == CHOOSE x \in S : \A y \in S : y <= x
\* copy(dst, src) into a zeroed slice of length n.
CopyInto(n, src) == [i \in 1..n |-> IF i <= Len(src) THEN src[i] ELSE 0]

\* The validity loop over broadcastDimensions against concrete extents.
broadcastValid(operandDims, target, broadcastDimensions) ==
    \A i \in 1..Len(broadcastDimensions) :
        LET outputAxis == broadcastDimensions[i]
        IN  (outputAxis >= 0 /\ outputAxis < Len(target))
            => ~(operandDims[i] # 1 /\ operandDims[i] # target[outputAxis + 1])

\* The same loop for a partially extracted target: an unknown operand
\* extent is accepted.
broadcastValidFilled(operandDims, target, broadcastDimensions) ==
    \A i \in 1..Len(broadcastDimensions) :
        LET outputAxis == broadcastDimensions[i]
        IN  (outputAxis >= 0 /\ outputAxis < Len(target))
            => ~(operandDims[i] > 0 /\ operandDims[i] # 1
                 /\ operandDims[i] # target[outputAxis + 1])

\* maxDim * outputRank, clamped to [MinBound, MaxBound].
conservativeBound(operandDims, outputRank) ==
    LET maxDim == SetMax({1} \cup {operandDims[i] : i \in 1..Len(operandDims)})
        raw    == maxDim * outputRank
    IN  IF raw < MinBound THEN MinBound ELSE IF raw > MaxBound THEN MaxBound ELSE raw

\* The bounds set when a concrete target does not fit the operand.
invalidBroadcastBounds(concreteShape, outputRank) ==
    [i \in 1..outputRank |->
        IF i <= Len(concreteShape) /\ concreteShape[i] > 0 THEN concreteShape[i]
        ELSE MinBound]

\* The output shape of the dynamic operation when extraction failed and no
\* static broadcast was emitted.
fallbackBroadcastShape(operandShape, outputRank) ==
    LET dims              == operandShape.Dimensions
        operandIsConcrete == \A i \in 1..Len(dims) : dims[i] >= 0
        hasBroadcastable  == \E i \in 1..Len(dims) : dims[i] = 1
    IN  IF operandIsConcrete /\ outputRank = Len(dims) /\ ~hasBroadcastable
        THEN [operandShape EXCEPT !.Dimensions = CopyInto(outputRank, dims)]
        ELSE [operandShape EXCEPT
                 !.Dimensions = Repeat(-1, outputRank),
                 !.DimensionBounds = Repeat(conservativeBound(dims, outputRank), outputRank)]

DynamicBroadcastInDimOp(operand, outputDimensions, broadcastDimensions) ==
    LET fn   == FnOf(operand)
        opSh == ShapeOf(operand)
        odSh == ShapeOf(outputDimensions)
    IN  IF Returned[fn] THEN Fail(fn)
        ELSE IF FnOf(outputDimensions) # fn THEN Fail(fn)
        ELSE IF Rank(odSh) # 1 THEN Fail(fn)
        ELSE IF ~IsInt(odSh.DType) THEN Fail(fn)
        ELSE IF Len(broadcastDimensions) # Rank(opSh) THEN Fail(fn)
        ELSE
        LET outputRank    == IF odSh.Dimensions[1] < 0 THEN Rank(opSh) ELSE odSh.Dimensions[1]
            extracted     == tryExtractConstantShape(fn, outputDimensions)
            concreteShape == extracted.vals
            allConcrete   == \A i \in 1..Len(concreteShape) : concreteShape[i] > 0
            partial       == partialShapeOf(fn, outputDimensions)
            filledShape   == [i \in 1..Len(partial.shape) |->
                                IF partial.shape[i] > 0 THEN partial.shape[i]
                                ELSE DefaultBound]
            dynamic(outputShape) ==
                Added(fn, "DynamicBroadcastInDim", <<outputShape>>,
                      <<operand, outputDimensions>>,
                      [broadcast_dimensions |-> broadcastDimensions])
        IN  IF extracted.ok
            THEN IF allConcrete
                 THEN IF broadcastValid(opSh.Dimensions, concreteShape, broadcastDimensions)
                      THEN BroadcastInDimOp(operand,
                               [opSh EXCEPT !.Dimensions = concreteShape],
                               broadcastDimensions)
                      ELSE dynamic([opSh EXCEPT
                               !.Dimensions = Repeat(InvalidDim, outputRank),
                               !.DimensionBounds =
                                   invalidBroadcastBounds(concreteShape, outputRank)])
                 ELSE dynamic([opSh EXCEPT
                          !.Dimensions = CopyInto(outputRank, concreteShape)])
            ELSE IF /\ partial.has
                    /\ Len(partial.shape) = outputRank
                    /\ broadcastValidFilled(opSh.Dimensions, filledShape, broadcastDimensions)
                 THEN BroadcastInDimOp(operand,
                          [opSh EXCEPT !.Dimensions = filledShape], broadcastDimensions)
                 ELSE dynamic(fallbackBroadcastShape(opSh, outputRank))

\* ------------------------------------------------------- DynamicReshape
\* The largest operand extent taken as the fallback extent.
SmallExtentLimit == 1024

\* Product of the positive entries.
ProdPositive(s) == Prod([i \in 1..Len(s) |-> IF s[i] > 0 THEN s[i] ELSE 1])
\* Last index holding a value in S; 0 if none (the code's -1).
LastIndexIn(s, S) ==
    LET hits == {i \in 1..Len(s) : s[i] \in S}
    IN  IF hits = {} THEN 0 ELSE SetMax(hits)

\* A wrong inference, one more than the quotient.
inferDimOffByOne(inputSize, knownProduct) == inputSize \div knownProduct + 1

\* inputSize / knownProduct, the extent inferred for one unknown entry.
inferDim(inputSize, knownProduct) == inputSize \div knownProduct

\* The first loop over the extracted shape: a 0 takes the operand's extent
\* at the same index when that is positive.
resolveZeros(concreteShape, operandDims) ==
    [i \in 1..Len(concreteShape) |->
        IF concreteShape[i] = 0 /\ i <= Len(operandDims) /\ operandDims[i] > 0
        THEN operandDims[i] ELSE concreteShape[i]]

\* The extracted shape after the first loop and the resolution of the last
\* -1 entry, with the flag that says whether something is left to infer.
resolveInferDim(concreteShape, operandShape) ==
    LET dims          == resolveZeros(concreteShape, operandShape.Dimensions)
        hasInferDim   == \E i \in 1..Len(dims) : dims[i] = -1 \/ dims[i] = 0
        inferDimIndex == LastIndexIn(dims, {-1})
        knownProduct  == ProdPositive(dims)
        inputSize     == Size(operandShape)
    IN  IF hasInferDim /\ inferDimIndex > 0 /\ inputSize > 0 /\ knownProduct > 0
        THEN [shape |-> SetAt(dims, inferDimIndex, inferDim(inputSize, knownProduct)),
              hasInferDim |-> FALSE]
        ELSE [shape |-> dims, hasInferDim |-> hasInferDim]

\* The target when an entry is left to infer: positive entries kept, the
\* last -1 computed from the input size, any other entry DefaultBound; if
\* the product still differs, operand extents overwrite the leading entries.
unresolvedTarget(concreteShape, operandShape, outputRank) ==
    LET opDims       == operandShape.Dimensions
        inputSize    == Size(operandShape)
        n            == Len(concreteShape)
        staticDims0  == [i \in 1..outputRank |->
                           IF i > n THEN 0
                           ELSE IF concreteShape[i] > 0 THEN concreteShape[i]
                           ELSE IF concreteShape[i] = -1 THEN 0
                           ELSE DefaultBound]
        knownProduct == Prod([i \in 1..n |->
                           IF concreteShape[i] > 0 THEN concreteShape[i]
                           ELSE IF concreteShape[i] = -1 THEN 1
                           ELSE DefaultBound])
        inferIdx     == LastIndexIn(concreteShape, {-1})
        inferredDim  == inferDim(inputSize, knownProduct)
        staticDims1  == IF inferIdx > 0 /\ inputSize > 0 /\ knownProduct > 0
                        THEN SetAt(staticDims0, inferIdx,
                                   IF inferredDim > 0 THEN inferredDim ELSE 1)
                        ELSE staticDims0
        outputSize   == Prod(staticDims1)
    IN  IF inputSize > 0 /\ outputSize # inputSize
        THEN [i \in 1..outputRank |->
                 IF i <= Len(opDims) /\ opDims[i] > 0 THEN opDims[i] ELSE staticDims1[i]]
        ELSE staticDims1

\* Writes past the end of staticDims in the loops of unresolvedTarget.
unresolvedTargetPanics(concreteShape, operandShape, outputRank) ==
    \/ \E i \in 1..Len(concreteShape) : i > outputRank /\ concreteShape[i] # -1
    \/ /\ LastIndexIn(concreteShape, {-1}) > outputRank
       /\ Size(operandShape) > 0

\* Extracted dims copied, with the last entry that is not in 1..inputSize
\* replaced by the extent inferred from the others.
fixOneDim(concreteShape, inputSize, outputRank) ==
    LET staticDims   == CopyInto(outputRank, concreteShape)
        usable       == [i \in 1..outputRank |->
                            staticDims[i] > 0 /\ staticDims[i] <= inputSize]
        knownProduct == Prod([i \in 1..outputRank |->
                            IF usable[i] THEN staticDims[i] ELSE 1])
        unknownIdx   == LastIndexIn(usable, {FALSE})
        inferredDim  == inferDim(inputSize, knownProduct)
    IN  IF inputSize > 0 /\ unknownIdx > 0 /\ knownProduct > 0 /\ inferredDim > 0
        THEN SetAt(staticDims, unknownIdx, inferredDim)
        ELSE staticDims

RECURSIVE keepFactors(_, _)
\* First pass over staticDims: an entry is kept while it divides what is
\* left of the input size; the others are marked 0.
keepFactors(dims, remainingSize) ==
    IF dims = <<>> THEN [validDims |-> <<>>, remainingSize |-> remainingSize]
    ELSE LET dim  == Head(dims)
             keep == dim > 0 /\ dim <= remainingSize /\ remainingSize % dim = 0
             rest == keepFactors(Tail(dims),
                                 IF keep THEN remainingSize \div dim ELSE remainingSize)
         IN  [validDims |-> <<IF keep THEN dim ELSE 0>> \o rest.validDims,
              remainingSize |-> rest.remainingSize]

\* Second pass: the last marked entry takes what is left, the others 1.
distributeRemaining(validDims, remainingSize) ==
    LET lastMarked == LastIndexIn(validDims, {0})
    IN  IF lastMarked > 0 /\ remainingSize > 0
        THEN [i \in 1..Len(validDims) |->
                 IF validDims[i] # 0 THEN validDims[i]
                 ELSE IF i = lastMarked THEN remainingSize ELSE 1]
        ELSE validDims

\* The last heuristic: the operand's extents, right-aligned behind 1s, or
\* everything merged into the last entry.
structuralDims(validDims, operandShape, outputRank) ==
    LET opDims    == operandShape.Dimensions
        rank      == Len(opDims)
        inputSize == Size(operandShape)
    IN  IF outputRank = rank THEN CopyInto(outputRank, opDims)
        ELSE IF outputRank > rank
        THEN [i \in 1..outputRank |->
                 IF i <= outputRank - rank THEN 1
                 ELSE IF opDims[i - (outputRank - rank)] > 0
                      THEN opDims[i - (outputRank - rank)] ELSE 1]
        ELSE [i \in 1..outputRank |-> IF i = outputRank THEN inputSize ELSE 1]

\* The target when the extracted sizes do not match the input size.
mismatchTarget(concreteShape, operandShape, outputRank) ==
    LET inputSize  == Size(operandShape)
        staticDims == fixOneDim(concreteShape, inputSize, outputRank)
        first      == keepFactors(staticDims, inputSize)
        validDims  == distributeRemaining(first.validDims, first.remainingSize)
    IN  IF ProdPositive(staticDims) = inputSize THEN staticDims
        ELSE IF Prod(validDims) # inputSize
             THEN structuralDims(validDims, operandShape, outputRank)
             ELSE validDims

RECURSIVE boundedSize(_, _)
\* The product of the positive bounds, stopping at MaxBound.
boundedSize(bounds, inputSize) ==
    IF bounds = <<>> THEN inputSize
    ELSE IF Head(bounds) > 0
         THEN IF inputSize > MaxBound \div Head(bounds) THEN MaxBound
              ELSE boundedSize(Tail(bounds), inputSize * Head(bounds))
         ELSE boundedSize(Tail(bounds), inputSize)

\* The input size used when the shape operand does not extract: the
\* product of the positive extents, or of the bounds if there is none.
knownInputSize(operandShape) ==
    LET dims == operandShape.Dimensions
    IN  IF \E i \in 1..Len(dims) : dims[i] > 0 THEN ProdPositive(dims)
        ELSE IF Len(operandShape.DimensionBounds) > 0
             THEN boundedSize(operandShape.DimensionBounds, 1)
             ELSE 1

\* The target computed from a partially extracted shape.
partialTarget(partialShape, inputSize) ==
    LET n            == Len(partialShape)
        staticDims   == [i \in 1..n |-> IF partialShape[i] > 0 THEN partialShape[i] ELSE 0]
        knownProduct == ProdPositive(partialShape)
        unknown      == {i \in 1..n : partialShape[i] <= 0}
        inferredDim  == inferDim(inputSize, knownProduct)
    IN  IF Cardinality(unknown) = 1 /\ inputSize > 0 /\ knownProduct > 0
        THEN [i \in 1..n |->
                 IF i \in unknown THEN (IF inferredDim > 0 THEN inferredDim ELSE 1)
                 ELSE staticDims[i]]
        ELSE [i \in 1..n |-> IF staticDims[i] = 0 THEN DefaultBound ELSE staticDims[i]]

\* The conservative target when nothing of the shape is known.
fallbackTarget(operandShape, outputRank) ==
    LET dims   == operandShape.Dimensions
        bounds == operandShape.DimensionBounds
        small(s) == {s[i] : i \in {j \in 1..Len(s) : s[j] > 0 /\ s[j] <= SmallExtentLimit}}
        bound  == IF small(dims) # {} THEN SetMax(small(dims))
                  ELSE IF small(bounds) # {} THEN SetMax(small(bounds))
                  ELSE DefaultBound
    IN  IF outputRank = Len(dims)
        THEN [i \in 1..outputRank |->
                 IF dims[i] > 0 THEN dims[i]
                 ELSE IF i <= Len(bounds) /\ bounds[i] > 0 THEN bounds[i]
                 ELSE bound]
        ELSE Repeat(bound, outputRank)

DynamicReshapeOp(operand, outputShape) ==
    LET fn   == FnOf(operand)
        opSh == ShapeOf(operand)
        osSh == ShapeOf(outputShape)
    IN  IF Returned[fn] THEN Fail(fn)
        ELSE IF FnOf(outputShape) # fn THEN Fail(fn)
        ELSE IF Rank(osSh) # 1 THEN Fail(fn)
        ELSE IF ~IsInt(osSh.DType) THEN Fail(fn)
        ELSE IF osSh.Dimensions[1] < 0 THEN Panic(fn)
        ELSE
        LET outputRank   == osSh.Dimensions[1]
            extracted    == tryExtractConstantShape(fn, outputShape)
            resolved     == resolveInferDim(extracted.vals, opSh)
            inputSize    == Size(opSh)
            symbolic     == \E i \in 1..Rank(opSh) : opSh.Dimensions[i] < 0
            partial      == partialShapeOf(fn, outputShape)
            partialDims  == partialTarget(partial.shape, knownInputSize(opSh))
            static(dims) == [opSh EXCEPT !.Dimensions = dims, !.DimensionBounds = <<>>]
        IN  IF extracted.ok
            THEN IF resolved.hasInferDim
                 THEN IF unresolvedTargetPanics(resolved.shape, opSh, outputRank)
                      THEN Panic(fn)
                      ELSE ReshapeOp(operand,
                               static(unresolvedTarget(resolved.shape, opSh, outputRank)))
                 ELSE IF symbolic
                 THEN ReshapeOp(operand, [opSh EXCEPT !.Dimensions = resolved.shape])
                 ELSE IF inputSize > 0 /\ Prod(resolved.shape) > 0
                         /\ inputSize = Prod(resolved.shape)
                 THEN ReshapeOp(operand, [opSh EXCEPT !.Dimensions = resolved.shape])
                 ELSE ReshapeOp(operand,
                          [opSh EXCEPT !.Dimensions =
                               mismatchTarget(resolved.shape, opSh, outputRank)])
            ELSE IF /\ partial.has
                    /\ Len(partial.shape) = outputRank
                    /\ knownInputSize(opSh) > 0
                    /\ Prod(partialDims) = knownInputSize(opSh)
                 THEN ReshapeOp(operand, static(partialDims))
                 ELSE ReshapeOp(operand, static(fallbackTarget(opSh, outputRank)))

\* ------------------------------------------------------ SpecOps actions
\* Paddings a caller may pass: none, or one to three [low, high] pairs.
PaddingChoices == {Repeat(<<0, 1>>, n) : n \in {0, 1, 3}}
\* Batch-axis arguments: valid, out of range.
AxisChoices == {0, 5}
\* Closures passed as reduction, select and scatter functions.
ClosureChoices == {"closure", "nested"}

CanCall(max) == ~lastCall.panic /\ TotalStmts < max

Return(f) ==
    /\ ~lastCall.panic
    /\ ~Returned[f]
    /\ Returned' = [Returned EXCEPT ![f] = TRUE]
    /\ lastCall' = [NoCall EXCEPT !.op = "Return", !.fn = f, !.before = Statements]
    /\ UNCHANGED <<Statements, Values, lastExtract>>

UnaryOp(f, operand) ==
    /\ CanCall(MaxOpsStmts)
    /\ Apply("unaryOp", <<operand>>, unaryOp(f, operand))

BinaryOp(f, lhs, rhs) ==
    /\ CanCall(MaxOpsStmts)
    /\ Apply("binaryOp", <<lhs, rhs>>, binaryOp(f, lhs, rhs))

Compare(lhs, rhs) ==
    /\ CanCall(MaxOpsStmts)
    /\ Apply("Compare", <<lhs, rhs>>, CompareOp(lhs, rhs))

Convolution(input, kernel, paddings, axis) ==
    /\ CanCall(MaxOpsStmts)
    /\ Apply("Convolution", <<input, kernel>>,
             ConvolutionOp(input, kernel, paddings, axis))

MultiReduceWindow(inputs, initialValues, reductionFn, paddings) ==
    /\ CanCall(MaxOpsStmts)
    /\ Apply("MultiReduceWindow", inputs \o initialValues,
             MultiReduceWindowOp(inputs, initialValues, reductionFn, paddings))

SelectAndScatter(input, scatterSource, initialValue, selectFn, scatterFn, paddings) ==
    /\ CanCall(MaxOpsStmts)
    /\ Apply("SelectAndScatter", <<input, scatterSource, initialValue>>,
             SelectAndScatterOp(input, scatterSource, initialValue,
                                selectFn, scatterFn, paddings))

\* ----------------------------------------------------- SpecFold actions
\* The constants of function main in SpecFold: three scalars, a vector of
\* one entry, and two vectors of two entries, one of them with a zero.
FoldLiterals ==
    << [dims |-> <<>>,  value |-> 2],
       [dims |-> <<>>,  value |-> 0],
       [dims |-> <<>>,  value |-> -7],
       [dims |-> <<1>>, value |-> <<1>>],
       [dims |-> <<2>>, value |-> <<-7, 8>>],
       [dims |-> <<2>>, value |-> <<2, 0>>] >>

CanFold == ~lastCall.panic /\ TotalStmts < Len(FoldLiterals) + MaxFoldStmts

\* What lastCall keeps of the operands: a call that is rejected without
\* appending leaves its name and its error only.
Kept(args, eff) == IF eff.err /\ eff.new = <<>> THEN <<>> ELSE args

Multiply(lhs, rhs) ==
    LET eff == binaryOpOf("Multiply", FnOf(lhs), lhs, rhs)
    IN  /\ CanFold
        /\ Apply("Multiply", Kept(<<lhs, rhs>>, eff), eff)

Divide(lhs, rhs) ==
    LET eff == binaryOpOf("Divide", FnOf(lhs), lhs, rhs)
    IN  /\ CanFold
        /\ Apply("Divide", Kept(<<lhs, rhs>>, eff), eff)

Gather(operand, startIndices) ==
    LET eff == GatherOp(operand, startIndices)
    IN  /\ CanFold
        /\ Apply("Gather", Kept(<<operand, startIndices>>, eff), eff)

\* An extractor that replaces the statement it evaluated with the constant
\* it found.
afterExtractionFolded(fn, shapeValue) ==
    LET i == DefiningStmt(fn, shapeValue)
        r == tryExtractConstantShape(fn, shapeValue)
    IN  IF i = 0 \/ ~r.ok THEN Statements[fn]
        ELSE SetAt(Statements[fn], i,
                   [Statements[fn][i] EXCEPT
                       !.OpType = "Constant", !.Inputs = <<>>,
                       !.Attributes = [value |-> [dtype |-> "i32", dims |-> <<Len(r.vals)>>,
                                                  value |-> r.vals]]])
\* The statements of fn after TryExtractConstantShape walked them: the walk
\* and its helpers only read, and every slice they return is newly made.
afterExtraction(fn, shapeValue) == Statements[fn]

\* TryExtractConstantShape(fn, shapeValue), called from outside a
\* construction call.
Extract(shapeValue) ==
    LET fn == FnOf(shapeValue)
    IN  /\ ~lastCall.panic
        /\ lastExtract' = [fn |-> fn, value |-> shapeValue,
                           result |-> tryExtractConstantShape(fn, shapeValue),
                           stmts |-> Statements, values |-> Values]
        /\ Statements' = [Statements EXCEPT ![fn] = afterExtraction(fn, shapeValue)]
        /\ lastCall' = [NoCall EXCEPT !.op = "Extract", !.fn = fn, !.args = <<shapeValue>>,
                                      !.before = Statements]
        /\ UNCHANGED <<Values, Returned>>

\* -------------------------------------------------------- plugin table
\* pkg/pjrt/dynamiclib_base.go. Goroutines call loadNamedPlugin; the
\* steps of one call are separate actions so that calls interleave.
Goroutines == {"g1", "g2"}
Unlocked == "unlocked"

\* Library files found under pluginSearchPaths, in glob order, and what
\* loading each one does: "ok" yields an API table, "nilApi" loads but
\* GetPjrtApi returns nil, "loadFails" cannot be opened.
Candidates == << "/lib/pjrt_c_api_cpu_plugin.so",
                 "/lib/pjrt_c_api_nil_plugin.so",
                 "/lib/pjrt_c_api_bad_plugin.so" >>
LibPaths == Range(Candidates)
LibStatus(path) ==
    CASE path = "/lib/pjrt_c_api_cpu_plugin.so" -> "ok"
      [] path = "/lib/pjrt_c_api_nil_plugin.so" -> "nilApi"
      [] OTHER -> "loadFails"
PluginNames == {"cpu", "nil", "bad", "tpu"}
RequestNames == PluginNames \cup LibPaths
IsAbs(name) == name \in LibPaths

pathToPluginName(pPath) ==
    CASE pPath = "/lib/pjrt_c_api_cpu_plugin.so" -> "cpu"
      [] pPath = "/lib/pjrt_c_api_nil_plugin.so" -> "nil"
      [] pPath = "/lib/pjrt_c_api_bad_plugin.so" -> "bad"
      [] OTHER -> ""

EmptyMap == [k \in {} |-> ""]
NoPlugin == 0
PluginPath(id) == plugins[id].path

\* loadPlugin: the handle, or nil with an error.
loadPlugin(pluginPath) == [ok |-> LibStatus(pluginPath) # "loadFails"]

\* checkPlugin. The handle is used whether or not loadPlugin succeeded:
\* a failed load leaves it nil and the calls on it panic.
checkPlugin(name, pluginPath) ==
    IF ~loadPlugin(pluginPath).ok THEN [panic |-> TRUE, err |-> TRUE]
    ELSE [panic |-> FALSE, err |-> LibStatus(pluginPath) = "nilApi"]

\* The scan of searchPlugins over the globbed candidates.
RECURSIVE scanCandidates(_, _, _)
scanCandidates(cands, searchName, acc) ==
    IF cands = <<>> \/ acc.panic THEN acc
    ELSE LET candidate == Head(cands)
             name      == pathToPluginName(candidate)
         IN  IF name = "" \/ (searchName # "" /\ searchName # name)
                \/ name \in DOMAIN acc.pluginsPaths
             THEN scanCandidates(Tail(cands), searchName, acc)
             ELSE LET chk == checkPlugin(name, candidate)
                  IN  IF chk.panic THEN [acc EXCEPT !.panic = TRUE]
                      ELSE IF chk.err
                           THEN scanCandidates(Tail(cands), searchName, acc)
                           ELSE scanCandidates(Tail(cands), searchName,
                                    [acc EXCEPT !.pluginsPaths = (name :> candidate) @@ @])

searchPlugins(searchName) ==
    LET keys      == {k \in DOMAIN loadedPlugins : searchName = "" \/ searchName = k}
        preloaded == [k \in keys |-> PluginPath(loadedPlugins[k])]
    IN  scanCandidates(Candidates, searchName, [pluginsPaths |-> preloaded, panic |-> FALSE])

searchPlugin(searchName) ==
    LET pluginsFound == searchPlugins(searchName)
    IN  [panic |-> pluginsFound.panic,
         found |-> ~pluginsFound.panic /\ searchName \in DOMAIN pluginsFound.pluginsPaths,
         path  |-> IF ~pluginsFound.panic /\ searchName \in DOMAIN pluginsFound.pluginsPaths
                   THEN pluginsFound.pluginsPaths[searchName] ELSE ""]

NoReq == [name |-> "", pluginPath |-> "", plugin |-> NoPlugin, err |-> FALSE]
Running == \A g \in Goroutines : pc[g] # "panic"

\* A goroutine enters loadNamedPlugin(name).
GetPlugin(g, name) ==
    /\ Running
    /\ pc[g] = "idle"
    /\ nCalls < MaxCalls
    /\ nCalls' = nCalls + 1
    /\ req' = [req EXCEPT ![g] = [NoReq EXCEPT !.name = name]]
    /\ pc' = [pc EXCEPT ![g] = "lock"]
    /\ UNCHANGED <<loadedPlugins, muPlugins, plugins, ret, nLoads>>

\* muPlugins.Lock()
Lock(g) ==
    /\ Running
    /\ pc[g] = "lock"
    /\ muPlugins = Unlocked
    /\ muPlugins' = g
    /\ pc' = [pc EXCEPT ![g] = "lookup"]
    /\ UNCHANGED <<loadedPlugins, plugins, req, ret, nLoads, nCalls>>

\* The cache lookup: by name, then by path when the name is absolute.
Lookup(g) ==
    LET name   == req[g].name
        byPath == {k \in DOMAIN loadedPlugins : PluginPath(loadedPlugins[k]) = name}
    IN  /\ Running
        /\ pc[g] = "lookup"
        /\ IF name \in DOMAIN loadedPlugins
           THEN /\ req' = [req EXCEPT ![g].plugin = loadedPlugins[name]]
                /\ pc' = [pc EXCEPT ![g] = "unlock"]
           ELSE IF IsAbs(name) /\ byPath # {}
           THEN /\ \E k \in byPath : req' = [req EXCEPT ![g].plugin = loadedPlugins[k]]
                /\ pc' = [pc EXCEPT ![g] = "unlock"]
           ELSE /\ req' = req
                /\ pc' = [pc EXCEPT ![g] = "resolve"]
        /\ UNCHANGED <<loadedPlugins, muPlugins, plugins, ret, nLoads, nCalls>>

\* The path of the library: the name itself if absolute, else searched.
Resolve(g) ==
    LET name == req[g].name
        srch == searchPlugin(name)
    IN  /\ Running
        /\ pc[g] = "resolve"
        /\ IF IsAbs(name)
           THEN /\ req' = [req EXCEPT ![g].pluginPath = name]
                /\ pc' = [pc EXCEPT ![g] = "load"]
           ELSE IF srch.panic
           THEN /\ req' = req
                /\ pc' = [pc EXCEPT ![g] = "panic"]
           ELSE IF ~srch.found
           THEN /\ req' = [req EXCEPT ![g].err = TRUE]
                /\ pc' = [pc EXCEPT ![g] = "unlock"]
           ELSE /\ req' = [req EXCEPT ![g].pluginPath = srch.path]
                /\ pc' = [pc EXCEPT ![g] = "load"]
        /\ UNCHANGED <<loadedPlugins, muPlugins, plugins, ret, nLoads, nCalls>>

\* loadPlugin, GetPJRTApiFn and the call of the API function. A nil API
\* returns errors.WithMessagef(err, ...) with err = nil, which is nil.
Load(g) ==
    LET name == req[g].name
        path == req[g].pluginPath
    IN  /\ Running
        /\ pc[g] = "load"
        /\ IF ~loadPlugin(path).ok
           THEN /\ req' = [req EXCEPT ![g].err = TRUE]
                /\ pc' = [pc EXCEPT ![g] = "unlock"]
                /\ nLoads' = nLoads
           ELSE /\ nLoads' = [nLoads EXCEPT ![name] = @ + 1]
                /\ IF LibStatus(path) = "nilApi"
                   THEN /\ req' = req
                        /\ pc' = [pc EXCEPT ![g] = "unlock"]
                   ELSE /\ req' = req
                        /\ pc' = [pc EXCEPT ![g] = "store"]
        /\ UNCHANGED <<loadedPlugins, muPlugins, plugins, ret, nCalls>>

\* newPlugin and the store into the table under the requested name.
Store(g) ==
    LET name == req[g].name
        id   == Len(plugins) + 1
    IN  /\ Running
        /\ pc[g] = "store"
        /\ plugins' = Append(plugins, [name |-> name, path |-> req[g].pluginPath,
                                      freed |-> FALSE])
        /\ loadedPlugins' = (name :> id) @@ loadedPlugins
        /\ req' = [req EXCEPT ![g].plugin = id]
        /\ pc' = [pc EXCEPT ![g] = "unlock"]
        /\ UNCHANGED <<muPlugins, ret, nLoads, nCalls>>

\* The deferred muPlugins.Unlock() and the return to the caller.
Unlock(g) ==
    /\ Running
    /\ pc[g] = "unlock"
    /\ muPlugins' = Unlocked
    /\ ret' = Append(ret, [name |-> req[g].name, plugin |-> req[g].plugin,
                           err |-> req[g].err,
                           freed |-> IF req[g].plugin = NoPlugin THEN FALSE
                                     ELSE plugins[req[g].plugin].freed])
    /\ req' = [req EXCEPT ![g] = NoReq]
    /\ pc' = [pc EXCEPT ![g] = "idle"]
    /\ UNCHANGED <<loadedPlugins, plugins, nLoads, nCalls>>

\* A goroutine enters AvailablePlugins(), which takes no lock, and is about
\* to read the table in searchPlugins("").
AvailablePlugins(g) ==
    /\ Running
    /\ pc[g] = "idle"
    /\ nCalls < MaxCalls
    /\ nCalls' = nCalls + 1
    /\ pc' = [pc EXCEPT ![g] = "available"]
    /\ UNCHANGED <<loadedPlugins, muPlugins, plugins, req, ret, nLoads>>

\* searchPlugins(""): the read of the table, the scan of the candidates
\* and the return of the map to the caller.
AvailablePluginsScan(g) ==
    /\ Running
    /\ pc[g] = "available"
    /\ pc' = [pc EXCEPT ![g] = IF searchPlugins("").panic THEN "panic" ELSE "idle"]
    /\ UNCHANGED <<loadedPlugins, muPlugins, plugins, req, ret, nLoads, nCalls>>

\* A goroutine enters FreeAll() and takes muPlugins.
FreeAll(g) ==
    /\ Running
    /\ pc[g] = "idle"
    /\ nCalls < MaxCalls
    /\ muPlugins = Unlocked
    /\ nCalls' = nCalls + 1
    /\ muPlugins' = g
    /\ pc' = [pc EXCEPT ![g] = "freeAll"]
    /\ UNCHANGED <<loadedPlugins, plugins, req, ret, nLoads>>

\* Plugin.Free(): the plugin's resources are released.
Free(p) == [p EXCEPT !.freed = TRUE]

\* The loop of FreeAll over the table, p.Free() on every entry, and the
\* deferred unlock. The entries stay in the table.
FreeAllLoop(g) ==
    /\ Running
    /\ pc[g] = "freeAll"
    /\ plugins' = [id \in 1..Len(plugins) |->
                      IF \E k \in DOMAIN loadedPlugins : loadedPlugins[k] = id
                      THEN Free(plugins[id])
                      ELSE plugins[id]]
    /\ muPlugins' = Unlocked
    /\ pc' = [pc EXCEPT ![g] = "idle"]
    /\ UNCHANGED <<loadedPlugins, req, ret, nLoads, nCalls>>

\* The plugin table before any call.
PluginIdle ==
    /\ loadedPlugins = EmptyMap
    /\ muPlugins = Unlocked
    /\ plugins = <<>>
    /\ pc = [g \in Goroutines |-> "idle"]
    /\ req = [g \in Goroutines |-> NoReq]
    /\ ret = <<>>
    /\ nLoads = [n \in RequestNames |-> 0]
    /\ nCalls = 0

\* A builder with no function yet.
BuilderIdle ==
    /\ Statements = [f \in Fns |-> <<>>]
    /\ Returned = [f \in Fns |-> FALSE]
    /\ Values = <<>>
    /\ lastCall = NoCall
    /\ lastExtract = NoExtraction

\* ------------------------------------------------------------------ arena
\* pkg/pjrt/arena.go. An arena is a record: size and current as in
\* arenaContainer, data TRUE while the C buffer is allocated, poolIndex;
\* regions lists the <<offset, length>> pairs handed out since the last
\* Reset, written the byte intervals <<from, to>> a holder has filled,
\* inPool whether the arena sits in a pool list, and returnedWith the
\* high-water mark it had when it was last returned (-1: never returned).
arenaAlignBytes == 8
minPooledArenaSize == 2048
maxPooledArenaSize == 16777216
minShift == 11
maxShift == 24
\* The P's a goroutine may be pinned to while it pushes or pops.
Procs == {0, 1}

newArena(size, poolIndex) ==
    [size |-> size, current |-> 0, data |-> TRUE, poolIndex |-> poolIndex,
     regions |-> <<>>, written |-> {}, inPool |-> FALSE, returnedWith |-> -1]

\* No rounding: the next allocation starts where the last one ended.
alignNone(n) == n
\* (n + arenaAlignBytes - 1) &^ (arenaAlignBytes - 1)
alignUp(n) == ((n + arenaAlignBytes - 1) \div arenaAlignBytes) * arenaAlignBytes

\* A check that lets a request run past the end by one alignment unit.
outOfMemoryLax(current, allocSize, size) == current + allocSize > size + arenaAlignBytes
\* a.current+int(allocSize) > a.size
outOfMemory(current, allocSize, size) == current + allocSize > size

\* The body shared by arenaAlloc and arenaAllocSlice: the capacity check,
\* the address &a.data.buf[a.current], which needs the buffer and an index
\* inside it, then the bump and the rounding of a.current.
arenaBump(A, allocSize) ==
    LET panics == \/ outOfMemory(A.current, allocSize, A.size)
                  \/ ~A.data
                  \/ A.current >= A.size
    IN  [panics |-> panics,
         arena  |-> IF panics THEN A
                    ELSE [A EXCEPT
                            !.current = alignUp(A.current + allocSize),
                            !.regions = Append(@, <<A.current, allocSize>>),
                            !.written = IF allocSize > 0
                                        THEN @ \cup {<<A.current, A.current + allocSize>>}
                                        ELSE @]]

\* Free: nothing on an arena already freed; else the buffer is released.
arenaFree(A) ==
    IF ~A.data THEN A
    ELSE [A EXCEPT !.data = FALSE, !.size = 0, !.current = 0, !.poolIndex = -1,
                   !.regions = <<>>, !.written = {}]

\* Nothing is cleared.
clearSizeNone(size, current) == 0
\* clearSize := min(a.size, a.current)
clearSize(size, current) == IF size < current THEN size ELSE current

\* Reset: memset of the first clearSize bytes, then current = 0. On a freed
\* or empty arena only current is set; nothing is reported to the caller.
arenaReset(A) ==
    IF ~A.data \/ A.size = 0 THEN [A EXCEPT !.current = 0, !.regions = <<>>]
    ELSE LET c == IF A.current > 0 THEN clearSize(A.size, A.current) ELSE 0
         IN  [A EXCEPT !.current = 0, !.regions = <<>>,
                       !.written = {<<IF w[1] < c THEN c ELSE w[1], w[2]>> :
                                       w \in {x \in @ : x[2] > c}}]

RECURSIVE bitsLen(_)
\* math/bits.Len: the number of bits needed to represent x.
bitsLen(x) == IF x = 0 THEN 0 ELSE 1 + bitsLen(x \div 2)

\* The shift of the size itself, one too many for a power of two.
poolShiftOfSize(targetSize) == bitsLen(targetSize)
\* shift := bits.Len(uint(targetSize - 1))
poolShift(targetSize) == bitsLen(targetSize - 1)

\* An arena its holder may use: one that is not sitting in a pool. The
\* number of calls is bounded.
Held(a) ==
    /\ arenaCall.n < MaxArenaOps
    /\ a \in 1..Len(arenas)
    /\ ~arenas[a].inPool
ArenaCalled(op, a, need, result, target) ==
    arenaCall' = [n |-> arenaCall.n + 1, op |-> op, arena |-> a, need |-> need,
                  remain |-> IF a \in 1..Len(arenas)
                             THEN arenas[a].size - arenas[a].current ELSE 0,
                  freed |-> a \in 1..Len(arenas) /\ ~arenas[a].data,
                  result |-> result, target |-> target]

\* newArena(size) called directly, as TestArena does.
NewArena(size) ==
    /\ arenaCall.n < MaxArenaOps
    /\ Len(arenas) < MaxArenas
    /\ arenas' = Append(arenas, newArena(size, -1))
    /\ ArenaCalled("newArena", Len(arenas) + 1, 0, "ok", size)
    /\ UNCHANGED pools

\* arenaAlloc[T](a), allocSize = cSizeOf[T]().
ArenaAlloc(a, allocSize) ==
    LET b == arenaBump(arenas[a], allocSize)
    IN  /\ Held(a)
        /\ arenas' = [arenas EXCEPT ![a] = b.arena]
        /\ ArenaCalled("arenaAlloc", a, allocSize, IF b.panics THEN "panic" ELSE "ok", 0)
        /\ UNCHANGED pools

\* arenaAllocSlice[T](a, n), allocSize = C.size_t(n) * cSizeOf[T]().
ArenaAllocSlice(a, elemSize, n) ==
    LET allocSize == n * elemSize
        b         == arenaBump(arenas[a], allocSize)
    IN  /\ Held(a)
        /\ arenas' = [arenas EXCEPT ![a] = b.arena]
        /\ ArenaCalled("arenaAllocSlice", a, allocSize,
                       IF b.panics THEN "panic" ELSE "ok", 0)
        /\ UNCHANGED pools

\* a.Free()
ArenaFree(a) ==
    /\ Held(a)
    /\ arenas' = [arenas EXCEPT ![a] = arenaFree(@)]
    /\ ArenaCalled("Free", a, 0, "ok", 0)
    /\ UNCHANGED pools

\* a.Reset()
ArenaReset(a) ==
    /\ Held(a)
    /\ arenas' = [arenas EXCEPT ![a] = arenaReset(@)]
    /\ ArenaCalled("Reset", a, 0, "ok", 0)
    /\ UNCHANGED pools

\* ap.Get(targetSize) by a goroutine pinned to P pid: a direct arena above
\* maxShift, else the head of the pool's list for pid, or a new arena of
\* the pool's size when that list is empty.
PoolGet(targetSize, pid) ==
    LET t         == IF targetSize <= minPooledArenaSize THEN minPooledArenaSize
                     ELSE targetSize
        shift     == IF poolShift(t) < minShift THEN minShift ELSE poolShift(t)
        poolIndex == shift - minShift
        direct    == shift > maxShift
        list      == IF direct THEN <<>> ELSE pools[poolIndex][pid]
        fresh     == Len(arenas) + 1
    IN  /\ arenaCall.n < MaxArenaOps
        /\ IF list # <<>>
           THEN /\ arenas' = [arenas EXCEPT ![Head(list)].inPool = FALSE]
                /\ pools' = [pools EXCEPT ![poolIndex][pid] = Tail(list)]
                /\ ArenaCalled("Get", Head(list), 0, "ok", targetSize)
           ELSE /\ Len(arenas) < MaxArenas
                /\ arenas' = Append(arenas,
                                    IF direct THEN newArena(t, -1)
                                    ELSE newArena(2^(poolIndex + minShift), poolIndex))
                /\ pools' = pools
                /\ ArenaCalled("Get", fresh, 0, "ok", targetSize)

\* ap.Return(arena) by a goroutine pinned to P pid.
PoolReturn(a, pid) ==
    LET A == arenas[a]
    IN  /\ Held(a)
        /\ IF ~A.data
           THEN UNCHANGED <<arenas, pools>>
           ELSE IF A.poolIndex < 0 \/ A.poolIndex > maxShift - minShift
           THEN /\ arenas' = [arenas EXCEPT ![a] = arenaFree(A)]
                /\ pools' = pools
           ELSE /\ arenas' = [arenas EXCEPT ![a] =
                                 [arenaReset(A) EXCEPT !.inPool = TRUE,
                                                       !.returnedWith = A.current]]
                /\ pools' = [pools EXCEPT ![A.poolIndex][pid] = <<a>> \o @]
        /\ ArenaCalled("Return", a, 0, "ok", 0)

\* No arena yet, and empty pools as newArenaPools leaves them.
ArenaIdle ==
    /\ arenas = <<>>
    /\ pools = [i \in 0..(maxShift - minShift) |-> [p \in Procs |-> <<>>]]
    /\ arenaCall = [n |-> 0, op |-> "none", arena |-> 0, need |-> 0, remain |-> 0,
                    freed |-> FALSE, result |-> "ok", target |-> 0]

\* ------------------------------------------------------ installer lock
\* pkg/installer/flock.go. Each caller makes one checkInstallOrFileLock
\* call for the same target, from the same or from another process; time
\* advances only while every caller is blocked, as under synctest in
\* TestCheckInstallOrFileLock.
Callers == {"p1", "p2"}
NoOne == "none"
InstallationFileLockTimeout == 300
RetryLockPeriod == 1

\* A lock that is granted whoever holds it.
tryLockAlways(holder) == TRUE
\* flock.Flock.TryLock on a fresh handle of the lock file: an exclusive
\* lock, granted when no handle holds one.
tryLock(holder) == holder = NoOne

\* A timer one retry period late.
timeOutLate(t) == t + InstallationFileLockTimeout + RetryLockPeriod
\* timeOut := time.After(InstallationFileLockTimeout), created at time t.
timeOutAt(t) == t + InstallationFileLockTimeout

NoResult == [kind |-> "none", isInstalled |-> FALSE, lock |-> FALSE, err |-> FALSE, at |-> 0]
\* The caller's call returns (isInstalled, fLock, err); "at" keeps the time
\* at which a call that timed out returned.
Returns(c, position, kind, isInstalled, lock, err) ==
    callers' = [callers EXCEPT ![c].pc = position,
                               ![c].result = [kind |-> kind, isInstalled |-> isInstalled,
                                              lock |-> lock, err |-> err,
                                              at |-> IF kind = "timeout" THEN clock ELSE 0]]

\* The call up to the loop: ReplaceTildeInDir, os.Stat and os.MkdirAll,
\* any of which may fail (fsOk = FALSE), then the lock handle and timeOut.
checkInstallOrFileLock(c, fsOk) ==
    /\ callers[c].pc = "idle"
    /\ clock <= MaxStart
    /\ IF ~fsOk THEN Returns(c, "done", "error", FALSE, FALSE, TRUE)
       ELSE IF lockFile.installed THEN Returns(c, "done", "installed", TRUE, FALSE, FALSE)
       ELSE callers' = [callers EXCEPT ![c].pc = "trylock", ![c].t0 = clock,
                                       ![c].timeOut = timeOutAt(clock)]
    /\ UNCHANGED <<clock, lockFile>>

\* One turn of the loop up to the select: TryLock, which may fail with an
\* error (fsOk = FALSE), the return with the lock, or the start of the
\* retry timer.
TryLock(c, fsOk) ==
    /\ callers[c].pc = "trylock"
    /\ IF ~fsOk
       THEN Returns(c, "done", "error", FALSE, FALSE, TRUE) /\ UNCHANGED lockFile
       ELSE IF tryLock(lockFile.holder)
       THEN /\ lockFile' = [lockFile EXCEPT !.holder = c]
            /\ Returns(c, "holding", "locked", FALSE, TRUE, FALSE)
       ELSE /\ callers' = [callers EXCEPT ![c].pc = "select",
                                          ![c].retry = clock + RetryLockPeriod]
            /\ UNCHANGED lockFile
    /\ UNCHANGED clock

\* The select: a channel that is ready is taken, either one if both are.
Select(c, timedOut) ==
    /\ callers[c].pc = "select"
    /\ IF timedOut
       THEN /\ clock >= callers[c].timeOut
            /\ Returns(c, "done", "timeout", FALSE, FALSE, TRUE)
       ELSE /\ clock >= callers[c].retry
            /\ callers' = [callers EXCEPT ![c].pc = "trylock", ![c].retry = 0]
    /\ UNCHANGED <<clock, lockFile>>

\* TPUAutoInstall after checkInstallOrFileLock returned it the lock:
\* TPUInstall writes the target file, whether or not it exists by now.
Install(c) ==
    /\ callers[c].pc = "holding"
    /\ c \notin lockFile.installedBy
    /\ lockFile' = [lockFile EXCEPT !.installed = TRUE, !.installedBy = @ \cup {c}]
    /\ UNCHANGED <<clock, callers>>

\* fileLock.Unlock by the caller that was returned the lock.
FileUnlock(c) ==
    /\ callers[c].pc = "holding"
    /\ lockFile' = [lockFile EXCEPT !.holder = NoOne]
    /\ callers' = [callers EXCEPT ![c].pc = "done"]
    /\ UNCHANGED clock

\* One second passes: every caller in the loop is blocked in its select
\* with neither timer due.
Tick ==
    /\ clock < MaxStart + InstallationFileLockTimeout + RetryLockPeriod
    /\ \A c \in Callers :
          /\ callers[c].pc # "trylock"
          /\ callers[c].pc = "select"
             => clock < callers[c].timeOut /\ clock < callers[c].retry
    /\ clock' = clock + 1
    /\ UNCHANGED <<lockFile, callers>>

\* No call yet, the target not installed and its lock file free.
FlockIdle ==
    /\ clock = 0
    /\ lockFile = [holder |-> NoOne, installed |-> FALSE, installedBy |-> {}]
    /\ callers = [c \in Callers |->
                     [pc |-> "idle", t0 |-> 0, timeOut |-> 0, retry |-> 0,
                      result |-> NoResult]]

\* ---------------------------------------------------- buffer lifetime
\* Client.Destroy and Buffer.Destroy of pkg/pjrt, as the specification
\* describes them and as TestBufferDestroyAfterClient uses them. A handle
\* is "none" before the buffer is created, "valid" until Destroy and
\* "destroyed" after; released counts the times the runtime was asked to
\* free the buffer's memory.
Buffers == {"b1", "b2", "b3"}

\* A Destroy that frees at the runtime whatever became of the client.
callsRuntimeAlways(handle, clientGone) == handle = "valid"
\* Buffer.Destroy frees the buffer at the runtime when the handle is valid
\* and the client, which frees what it tracks when destroyed, is alive.
callsRuntime(handle, clientGone) == handle = "valid" /\ ~clientGone

BufferCalled(op, b, result) ==
    bufCall' = [op |-> op, buf |-> b, result |-> result,
                clientGone |-> client.destroyed,
                handle |-> IF b \in Buffers THEN buffers[b].handle ELSE "none",
                released |-> IF b \in Buffers THEN buffers[b].released ELSE 0]

\* ScalarToBuffer(client, v): a buffer of the client, tracked by it.
NewBuffer(b) ==
    /\ buffers[b].handle = "none"
    /\ IF client.destroyed
       THEN BufferCalled("NewBuffer", b, "HandleInvalid") /\ UNCHANGED <<client, buffers>>
       ELSE /\ buffers' = [buffers EXCEPT ![b].handle = "valid"]
            /\ client' = [client EXCEPT !.tracked = @ \cup {b}]
            /\ BufferCalled("NewBuffer", b, "ok")

\* Buffer.Destroy: idempotent, and after the client is gone a no-op that
\* consumes the handle.
BufferDestroy(b) ==
    /\ buffers[b].handle # "none"
    /\ buffers' = [buffers EXCEPT
           ![b].handle = "destroyed",
           ![b].released = IF callsRuntime(buffers[b].handle, client.destroyed)
                           THEN @ + 1 ELSE @]
    /\ client' = [client EXCEPT !.tracked = @ \ {b}]
    /\ BufferCalled("BufferDestroy", b, "ok")

\* Client.Destroy: releases the buffers it still tracks; a second call is
\* a no-op.
ClientDestroy ==
    /\ buffers' = [b \in Buffers |->
                      IF b \in client.tracked /\ ~client.destroyed
                      THEN [buffers[b] EXCEPT !.released = @ + 1]
                      ELSE buffers[b]]
    /\ client' = [destroyed |-> TRUE, tracked |-> {}]
    /\ BufferCalled("ClientDestroy", "none", "ok")

\* A new client, no buffer yet.
BufferIdle ==
    /\ client = [destroyed |-> FALSE, tracked |-> {}]
    /\ buffers = [b \in Buffers |-> [handle |-> "none", released |-> 0]]
    /\ bufCall = [op |-> "none", buf |-> "none", result |-> "ok", clientGone |-> FALSE,
                  handle |-> "none", released |-> 0]

\* ------------------------------------------------------- internal/pool
\* Pool.Get and Pool.Put step by step, as built without the race detector:
\* raceMutex.lock and unlock are empty, so nothing but the pinning of the
\* goroutine to its P orders the reads and writes of a list head.  The
\* test pid >= len(p.heads) needs more than maxProcs = 4096 Ps and is left
\* out.
Workers == {"w1", "w2"}
MaxNodes == 3
Nodes == 1..MaxNodes
NoNode == 0

\* The positions of Get and Put between runtime_procPin and
\* runtime_procUnpin.
PinnedAt == {"get_read", "get_next", "get_head", "get_clear", "get_unpin",
             "put_next", "put_head", "put_unpin"}

\* runtime_procPin(): the P the goroutine runs on.  The goroutine is not
\* preempted until runtime_procUnpin, so no other goroutine runs on that P
\* meanwhile.
procPin(g) ==
    {p \in Procs : \A h \in Workers \ {g} :
        ~(workers[h].pc \in PinnedAt /\ workers[h].pid = p)}

PoolReturned(op, g, node, fresh) ==
    poolCall' = [op |-> op, worker |-> g, node |-> node, fresh |-> fresh]

\* Get: pid := runtime_procPin(); h := &p.heads[pid]
Get(g) ==
    /\ workers[g].pc = "idle"
    /\ \E p \in procPin(g) :
          workers' = [workers EXCEPT ![g].pc = "get_read", ![g].pid = p]
    /\ UNCHANGED <<heads, nodeNext, poolCall>>

\* Get: node := h.head
GetRead(g) ==
    LET node == heads[workers[g].pid]
    IN  /\ workers[g].pc = "get_read"
        /\ workers' = [workers EXCEPT ![g].node = node,
                          ![g].pc = IF node # NoNode THEN "get_next" ELSE "get_unpin"]
        /\ UNCHANGED <<heads, nodeNext, poolCall>>

\* Get: next = node.Next()
GetNext(g) ==
    /\ workers[g].pc = "get_next"
    /\ workers' = [workers EXCEPT ![g].next = nodeNext[workers[g].node],
                                  ![g].pc = "get_head"]
    /\ UNCHANGED <<heads, nodeNext, poolCall>>

\* The value Get stores in h.head after it has read node and next.
keepHead(node, next) == node
popHead(node, next) == next

\* Get: h.head = next
GetHead(g) ==
    /\ workers[g].pc = "get_head"
    /\ heads' = [heads EXCEPT ![workers[g].pid] =
                    popHead(workers[g].node, workers[g].next)]
    /\ workers' = [workers EXCEPT ![g].pc = "get_clear"]
    /\ UNCHANGED <<nodeNext, poolCall>>

\* Get: node.SetNext(nil)
GetClear(g) ==
    /\ workers[g].pc = "get_clear"
    /\ nodeNext' = [nodeNext EXCEPT ![workers[g].node] = NoNode]
    /\ workers' = [workers EXCEPT ![g].pc = "get_unpin"]
    /\ UNCHANGED <<heads, poolCall>>

\* Get: h.unlock(); runtime_procUnpin()
GetUnpin(g) ==
    /\ workers[g].pc = "get_unpin"
    /\ workers' = [workers EXCEPT ![g].pc = "get_new", ![g].pid = 0]
    /\ UNCHANGED <<heads, nodeNext, poolCall>>

\* Get: if node == nil { node = p.New() }; return node.  New makes the
\* next node not made yet, with a nil next pointer.
GetReturn(g) ==
    LET fresh == workers[g].node = NoNode
        node  == IF fresh THEN Len(nodeNext) + 1 ELSE workers[g].node
    IN  /\ workers[g].pc = "get_new"
        /\ fresh => Len(nodeNext) < MaxNodes
        /\ nodeNext' = IF fresh THEN Append(nodeNext, NoNode) ELSE nodeNext
        /\ workers' = [workers EXCEPT ![g].pc = "idle", ![g].node = NoNode,
                                      ![g].next = NoNode,
                                      ![g].holds = @ \cup {node}]
        /\ PoolReturned("Get", g, node, fresh)
        /\ UNCHANGED heads

\* Put(node) by the borrower of node, or Put(nil), which returns at once;
\* else pid := runtime_procPin(); h := &p.heads[pid].  The borrower gives
\* the node up with the call.
Put(g, node) ==
    /\ workers[g].pc = "idle"
    /\ node \in workers[g].holds \cup {NoNode}
    /\ IF node = NoNode
       THEN /\ PoolReturned("Put", g, NoNode, FALSE)
            /\ UNCHANGED <<heads, nodeNext, workers>>
       ELSE /\ \E p \in procPin(g) :
                  workers' = [workers EXCEPT ![g].pc = "put_next", ![g].pid = p,
                                             ![g].node = node,
                                             ![g].holds = @ \ {node}]
            /\ UNCHANGED <<heads, nodeNext, poolCall>>

\* Put: node.SetNext(h.head)
PutNext(g) ==
    /\ workers[g].pc = "put_next"
    /\ nodeNext' = [nodeNext EXCEPT ![workers[g].node] = heads[workers[g].pid]]
    /\ workers' = [workers EXCEPT ![g].pc = "put_head"]
    /\ UNCHANGED <<heads, poolCall>>

\* Put: h.head = node
PutHead(g) ==
    /\ workers[g].pc = "put_head"
    /\ heads' = [heads EXCEPT ![workers[g].pid] = workers[g].node]
    /\ workers' = [workers EXCEPT ![g].pc = "put_unpin"]
    /\ UNCHANGED <<nodeNext, poolCall>>

\* Put: h.unlock(); runtime_procUnpin()
PutUnpin(g) ==
    /\ workers[g].pc = "put_unpin"
    /\ workers' = [workers EXCEPT ![g].pc = "idle", ![g].pid = 0,
                                  ![g].node = NoNode]
    /\ PoolReturned("Put", g, workers[g].node, FALSE)
    /\ UNCHANGED <<heads, nodeNext>>

\* pool.New(newFunc): every head nil, no node made, nobody inside a call.
LinkIdle ==
    /\ heads = [p \in Procs |-> NoNode]
    /\ nodeNext = <<>>
    /\ workers = [g \in Workers |->
                    [pc |-> "idle", pid |-> 0, node |-> NoNode, next |-> NoNode,
                     holds |-> {}]]
    /\ poolCall = [op |-> "none", worker |-> "none", node |-> NoNode, fresh |-> FALSE]

\* ------------------------------------------------------------- SpecOps
\* One f32[1,1,3] parameter in each function of the tree.
InitOps ==
    /\ Statements = [f \in Fns |-> <<>>]
    /\ Returned = [f \in Fns |-> FALSE]
    /\ Values = << NewParam("main", "f32", <<1, 1, 3>>),
                   NewParam("closure", "f32", <<1, 1, 3>>),
                   NewParam("nested", "f32", <<1, 1, 3>>),
                   NewParam("sibling", "f32", <<1, 1, 3>>) >>
    /\ lastCall = NoCall
    /\ lastExtract = NoExtraction
    /\ PluginIdle
    /\ ArenaIdle
    /\ FlockIdle
    /\ BufferIdle
    /\ LinkIdle

NextOps ==
    \/ \E f \in Fns : Return(f) /\ UNCHANGED <<pluginVars, arenaVars, flockVars, bufferVars, linkVars>>
    \/ \E f \in Fns, x \in ValueIds : UnaryOp(f, x) /\ UNCHANGED <<pluginVars, arenaVars, flockVars, bufferVars, linkVars>>
    \/ \E f \in Fns, l, r \in ValueIds : BinaryOp(f, l, r) /\ UNCHANGED <<pluginVars, arenaVars, flockVars, bufferVars, linkVars>>
    \/ \E l, r \in ValueIds : Compare(l, r) /\ UNCHANGED <<pluginVars, arenaVars, flockVars, bufferVars, linkVars>>
    \/ \E i, k \in ValueIds, p \in PaddingChoices, a \in AxisChoices :
          Convolution(i, k, p, a) /\ UNCHANGED <<pluginVars, arenaVars, flockVars, bufferVars, linkVars>>
    \/ \E ins \in SeqsUpTo(ValueIds, 1), inits \in SeqsUpTo(ValueIds, 1),
          rf \in ClosureChoices, p \in PaddingChoices :
          MultiReduceWindow(ins, inits, rf, p) /\ UNCHANGED <<pluginVars, arenaVars, flockVars, bufferVars, linkVars>>
    \/ \E i, s, v \in ValueIds, sf, cf \in ClosureChoices, p \in PaddingChoices :
          SelectAndScatter(i, s, v, sf, cf, p) /\ UNCHANGED <<pluginVars, arenaVars, flockVars, bufferVars, linkVars>>

SpecOps == InitOps /\ [][NextOps]_vars

\* Operands of the last call that sit in more than one function.
ArgFns(call) == {FnOf(call.args[i]) : i \in 1..Len(call.args)}
Unrelated(f, g) == ~IsAncestorOf(f, g) /\ ~IsAncestorOf(g, f)
Appended(call, f) == Len(Statements[f]) = Len(call.before[f]) + 1

\* C1: whenever a construction call returns an error, the statement list
\* of every function is identical to what it was before the call.
C1_FailedCallAppendsNothing ==
    lastCall.err => Statements = lastCall.before

\* C2: a binary operation or comparison whose operands sit in a closure
\* and in strict ancestors of it, in either order, called on the deepest
\* of these functions while it is still open, returns no error and
\* appends its statement to that deepest function.
C2_ClosureCaptureAccepted ==
    LET deepest == innerMostFunction(lastCall.args)
    IN  (/\ lastCall.op \in {"binaryOp", "Compare"}
         /\ Cardinality(ArgFns(lastCall)) > 1
         /\ deepest # NoFn
         /\ ~Returned[deepest]
         /\ lastCall.op = "binaryOp" => lastCall.fn = deepest)
        => (~lastCall.err /\ Appended(lastCall, deepest))

\* C3: a call is rejected with an error whenever two of its operands sit
\* in functions neither of which is an ancestor of the other, in whatever
\* operand position.
C3_UnrelatedOperandsRejected ==
    (\E f, g \in ArgFns(lastCall) : Unrelated(f, g)) => lastCall.err

\* C21: a construction call whose owning function has been returned
\* comes back with an error, does not abort and appends nothing.
C21_ClosedFunctionRejects ==
    (/\ lastCall.op \notin {"none", "Return", "Extract"}
     /\ lastCall.fn \in Fns
     /\ Returned[lastCall.fn])
    => (lastCall.err /\ ~lastCall.panic /\ Statements = lastCall.before)

\* A unary operation on a value of its own function, which is accepted on
\* an open function, was called after the function's Return.
C21_Witness ==
    /\ lastCall.op = "unaryOp"
    /\ Returned[lastCall.fn]
    /\ lastCall.err
    /\ lastCall.args # <<>>
    /\ FnOf(lastCall.args[1]) = lastCall.fn

\* ------------------------------------------------------------- SpecDyn
\* Entries of the shape constant a caller builds.
EVals == {-1, 0, 3, 4}
DynShapes == SeqsUpTo(EVals, MaxLen) \ {<<>>}
BroadcastChoices == {<<0>>, <<1>>, <<0, 1>>}
ConcatAxes == {0, 1}

\* Values passed as shape operands and as parts of a concatenated shape:
\* every i32 value that is not a vector of more than MaxLen entries, and
\* the f32[3] tensor for the wrong element type.
ShapeArgs ==
    {v \in ValueIds :
        /\ IsInt(ShapeOf(v).DType) \/ DimsOf(v) = <<3>>
        /\ Rank(ShapeOf(v)) = 1 => DimsOf(v)[1] <= MaxLen}

\* The caller of SpecDyn stops building at the first error: a rejected
\* call of these operations changes nothing but lastCall.
CanBuild == CanCall(MaxDynStmts) /\ ~lastCall.err

Concatenate(axis, operands) ==
    /\ CanBuild
    /\ Apply("Concatenate", Kept(operands, ConcatenateOp(axis, operands)),
             ConcatenateOp(axis, operands))

DynamicBroadcastInDim(operand, outputDimensions, broadcastDimensions) ==
    LET eff == DynamicBroadcastInDimOp(operand, outputDimensions, broadcastDimensions)
    IN  /\ CanBuild
        /\ Apply("DynamicBroadcastInDim", Kept(<<operand, outputDimensions>>, eff), eff)

\* A rejected DynamicReshape keeps its operands in lastCall when the shape
\* operand extracts.
DynamicReshape(operand, outputShape) ==
    LET eff  == DynamicReshapeOp(operand, outputShape)
        args == <<operand, outputShape>>
    IN  /\ CanBuild
        /\ Apply("DynamicReshape",
                 IF tryExtractConstantShape(FnOf(operand), outputShape).ok
                 THEN args ELSE Kept(args, eff),
                 eff)

\* The parameters of the functions: in main, tensors (static, with an
\* extent 1, with an unknown extent, with a large extent) and two i32 shape
\* parameters, one of unknown length; one i32 parameter in a closure.
DynParams ==
    << NewParam("main", "f32", <<2, 3>>),
       NewParam("main", "f32", <<3>>),
       NewParam("main", "f32", <<1>>),
       NewParam("main", "f32", <<-1, 3>>),
       NewParam("main", "f32", <<40000>>),
       NewParam("main", "i32", <<2>>),
       NewParam("main", "i32", <<-1>>),
       NewParam("closure", "i32", <<2>>) >>

\* Function main after its parameters and one shape constant, of any of
\* the values in DynShapes, have been added.
InitDyn ==
    /\ Returned = [f \in Fns |-> FALSE]
    /\ \E flat \in DynShapes :
          LET new == ConstantOp("main", flat).new[1]
              out == Len(DynParams) + 1
          IN  /\ Statements = [f \in Fns |->
                     IF f = "main"
                     THEN <<[OpType |-> new.OpType, Inputs |-> new.Inputs,
                             Outputs |-> <<out>>, Attributes |-> new.Attributes]>>
                     ELSE <<>>]
              /\ Values = Append(DynParams,
                     [fn |-> "main", shape |-> new.shapes[1], stmt |-> 1, outputIndex |-> 0])
    /\ lastCall = NoCall
    /\ lastExtract = NoExtraction
    /\ PluginIdle
    /\ ArenaIdle
    /\ FlockIdle
    /\ BufferIdle
    /\ LinkIdle

NextDyn ==
    \/ /\ CanBuild
       /\ \E axis \in ConcatAxes, operands \in SeqsUpTo(ShapeArgs, 2) :
             Concatenate(axis, operands) /\ UNCHANGED <<pluginVars, arenaVars, flockVars, bufferVars, linkVars>>
    \/ /\ CanBuild
       /\ \E operand \in ValueIds, outputDimensions \in ShapeArgs, bd \in BroadcastChoices :
             DynamicBroadcastInDim(operand, outputDimensions, bd) /\ UNCHANGED <<pluginVars, arenaVars, flockVars, bufferVars, linkVars>>
    \/ /\ CanBuild
       /\ \E operand \in ValueIds, outputShape \in ShapeArgs :
             DynamicReshape(operand, outputShape) /\ UNCHANGED <<pluginVars, arenaVars, flockVars, bufferVars, linkVars>>

SpecDyn == InitDyn /\ [][NextDyn]_vars

\* The last call, when it was the given operation and returned a value.
Emitted(op) == lastCall.op = op /\ ~lastCall.err /\ ~lastCall.panic /\ lastCall.out # <<>>
\* The statement the last call appended and the shape of its output.
EmittedStmt == Statements[lastCall.fn][Values[lastCall.out[1]].stmt]
EmittedShape == ShapeOf(lastCall.out[1])
\* The operand of the last call and what its shape operand extracts to.
CallOperand == ShapeOf(lastCall.args[1])
CallExtract == tryExtractConstantShape(lastCall.fn, lastCall.args[2])
\* The last call passed the checks on its shape operand and extracted it.
CallExtracted ==
    /\ Len(lastCall.args) = 2
    /\ FnOf(lastCall.args[2]) = lastCall.fn
    /\ Rank(ShapeOf(lastCall.args[2])) = 1
    /\ IsInt(ShapeOf(lastCall.args[2]).DType)
    /\ CallExtract.ok
FullyStatic(shape) == \A i \in 1..Rank(shape) : shape.Dimensions[i] >= 0
CountOf(s, x) == Cardinality({i \in 1..Len(s) : s[i] = x})

\* C4: every DynamicBroadcastInDim call that succeeds appends exactly one
\* statement, which is a BroadcastInDim with a fully static output shape,
\* or a DynamicBroadcastInDim whose output extents are all DimUnknown and
\* which carries one bound greater than 0 for every output axis.
C4_BroadcastEmitsStaticOrBounded ==
    Emitted("DynamicBroadcastInDim") =>
        /\ Appended(lastCall, lastCall.fn)
        /\ \/ /\ EmittedStmt.OpType = "BroadcastInDim"
              /\ FullyStatic(EmittedShape)
           \/ /\ EmittedStmt.OpType = "DynamicBroadcastInDim"
              /\ \A i \in 1..Rank(EmittedShape) : EmittedShape.Dimensions[i] = DimUnknown
              /\ Len(EmittedShape.DimensionBounds) = Rank(EmittedShape)
              /\ \A i \in 1..Rank(EmittedShape) : EmittedShape.DimensionBounds[i] > 0

\* C5: when DynamicReshape appends a Reshape for an operand all of whose
\* extents are known, the product of the extents of the Reshape's output
\* equals the number of elements of the operand.
C5_ReshapeKeepsElementCount ==
    (/\ Emitted("DynamicReshape")
     /\ EmittedStmt.OpType = "Reshape"
     /\ FullyStatic(CallOperand))
    => Prod(EmittedShape.Dimensions) = Size(CallOperand)

\* C6: when the shape operand of DynamicReshape extracts to a vector all of
\* whose entries are negative and every extent of the operand is known,
\* with S elements, the call appends a Reshape whose output has extent 1
\* on every axis but the last and extent S on the last.
C6_AllNegativeDistributes ==
    (/\ lastCall.op = "DynamicReshape"
     /\ ~lastCall.panic
     /\ CallExtracted
     /\ CallExtract.vals # <<>>
     /\ \A i \in 1..Len(CallExtract.vals) : CallExtract.vals[i] < 0
     /\ FullyStatic(CallOperand))
    => /\ Emitted("DynamicReshape")
       /\ EmittedStmt.OpType = "Reshape"
       /\ EmittedShape.Dimensions =
             [i \in 1..Len(CallExtract.vals) |->
                 IF i = Len(CallExtract.vals) THEN Size(CallOperand) ELSE 1]

\* The extracted shape with its -1 entry replaced by the extent inferred
\* from the operand's size S and the product of the other entries.
OthersProduct(E) == Prod([i \in 1..Len(E) |-> IF E[i] = -1 THEN 1 ELSE E[i]])
Inferred(E, S) == [i \in 1..Len(E) |-> IF E[i] = -1 THEN S \div OthersProduct(E) ELSE E[i]]
\* A DynamicReshape call whose shape operand extracts to a vector with
\* exactly one -1 and whose operand has only known extents.
OneInferDimCall ==
    /\ lastCall.op = "DynamicReshape"
    /\ ~lastCall.panic
    /\ CallExtracted
    /\ CountOf(CallExtract.vals, -1) = 1
    /\ FullyStatic(CallOperand)
EmitsInferred ==
    /\ Emitted("DynamicReshape")
    /\ EmittedStmt.OpType = "Reshape"
    /\ OthersProduct(CallExtract.vals) # 0
    /\ EmittedShape.Dimensions = Inferred(CallExtract.vals, Size(CallOperand))

OthersDivide(E, S) ==
    /\ \A i \in 1..Len(E) : E[i] = -1 \/ E[i] > 0
    /\ S > 0
    /\ S % OthersProduct(E) = 0

C8_BoundsPerAxis ==
    (Emitted("DynamicBroadcastInDim") /\ EmittedStmt.OpType = "DynamicBroadcastInDim")
    => LET E       == CallExtract
           rank    == Rank(EmittedShape)
           dims    == CallOperand.Dimensions
           maxDim  == SetMax({1} \cup {dims[i] : i \in 1..Len(dims)})
           raw     == maxDim * rank
           clamped == IF raw < MinBound THEN MinBound
                      ELSE IF raw > MaxBound THEN MaxBound ELSE raw
       IN  /\ Len(EmittedShape.DimensionBounds) = rank
           /\ \A i \in 1..rank :
                 EmittedShape.DimensionBounds[i] =
                     IF E.ok /\ i <= Len(E.vals) /\ E.vals[i] > 0 THEN E.vals[i]
                     ELSE clamped

\* C30: DynamicReshape called with a 1-D integer shape operand whose length
\* is not known statically returns a value or an error; it does not abort.
C30_UnknownLengthShapeOperand ==
    (/\ lastCall.op = "DynamicReshape"
     /\ Len(lastCall.args) = 2
     /\ Rank(ShapeOf(lastCall.args[2])) = 1
     /\ IsInt(ShapeOf(lastCall.args[2]).DType)
     /\ ShapeOf(lastCall.args[2]).Dimensions[1] < 0)
    => ~lastCall.panic

\* ---------------------------------------------------------- SpecPlugin
InitPlugin == BuilderIdle /\ PluginIdle /\ ArenaIdle /\ FlockIdle /\ BufferIdle /\ LinkIdle

NextPlugin ==
    \/ \E g \in Goroutines, n \in RequestNames : GetPlugin(g, n) /\ UNCHANGED <<builderVars, arenaVars, flockVars, bufferVars, linkVars>>
    \/ \E g \in Goroutines : Lock(g) /\ UNCHANGED <<builderVars, arenaVars, flockVars, bufferVars, linkVars>>
    \/ \E g \in Goroutines : Lookup(g) /\ UNCHANGED <<builderVars, arenaVars, flockVars, bufferVars, linkVars>>
    \/ \E g \in Goroutines : Resolve(g) /\ UNCHANGED <<builderVars, arenaVars, flockVars, bufferVars, linkVars>>
    \/ \E g \in Goroutines : Load(g) /\ UNCHANGED <<builderVars, arenaVars, flockVars, bufferVars, linkVars>>
    \/ \E g \in Goroutines : Store(g) /\ UNCHANGED <<builderVars, arenaVars, flockVars, bufferVars, linkVars>>
    \/ \E g \in Goroutines : Unlock(g) /\ UNCHANGED <<builderVars, arenaVars, flockVars, bufferVars, linkVars>>
    \/ \E g \in Goroutines : AvailablePlugins(g) /\ UNCHANGED <<builderVars, arenaVars, flockVars, bufferVars, linkVars>>
    \/ \E g \in Goroutines : AvailablePluginsScan(g) /\ UNCHANGED <<builderVars, arenaVars, flockVars, bufferVars, linkVars>>
    \/ \E g \in Goroutines : FreeAll(g) /\ UNCHANGED <<builderVars, arenaVars, flockVars, bufferVars, linkVars>>
    \/ \E g \in Goroutines : FreeAllLoop(g) /\ UNCHANGED <<builderVars, arenaVars, flockVars, bufferVars, linkVars>>

SpecPlugin == InitPlugin /\ [][NextPlugin]_vars

\* The plugins returned without error to the calls logged for a name.
ReturnedFor(names) ==
    {ret[i].plugin : i \in {j \in 1..Len(ret) : ret[j].name \in names /\ ~ret[j].err}}

\* C9: all calls of loadNamedPlugin for one name that have returned, made
\* one after the other or by goroutines running together, returned the
\* same plugin, and the library of that name was loaded at most once.
C9_SameHandleSingleLoad ==
    \A name \in RequestNames :
        /\ Cardinality(ReturnedFor({name})) <= 1
        /\ nLoads[name] <= 1

\* C10: for a library that loads and yields an API, at most one Plugin is
\* created for its path: the calls by its absolute path and by its plugin
\* name returned the same plugin, and the library was loaded once at most.
C10_OnePluginPerPath ==
    \A path \in {p \in LibPaths : LibStatus(p) = "ok"} :
        LET names == {path, pathToPluginName(path)}
        IN  /\ Cardinality({id \in 1..Len(plugins) : plugins[id].path = path}) <= 1
            /\ Cardinality(ReturnedFor(names)) <= 1
            /\ nLoads[path] + nLoads[pathToPluginName(path)] <= 1

\* C28: once FreeAll has run, loadNamedPlugin never returns a plugin that
\* FreeAll has freed.
C28_NeverReturnsFreedPlugin ==
    \A i \in 1..Len(ret) : ret[i].plugin # NoPlugin => ~ret[i].freed

\* C29: a candidate file that cannot be loaded is skipped by the discovery:
\* AvailablePlugins and loadNamedPlugin by name run to their end, without
\* aborting.
C29_UnloadableCandidateSkipped == \A g \in Goroutines : pc[g] # "panic"

\* The positions of a goroutine at which its next step reads or writes
\* loadedPlugins: the lookup, the search, the store, the loop of FreeAll
\* and the search of AvailablePlugins.
AtTableAccess(g) ==
    \/ pc[g] \in {"lookup", "store", "freeAll", "available"}
    \/ pc[g] = "resolve" /\ ~IsAbs(req[g].name)

\* C11: whenever a goroutine is about to read or write the loaded-plugin
\* table, from loadNamedPlugin, AvailablePlugins or FreeAll, it holds
\* muPlugins.
C11_TableAccessUnderMutex ==
    \A g \in Goroutines : AtTableAccess(g) => muPlugins = g

\* C12: every call of loadNamedPlugin that has returned for a library whose
\* GetPjrtApi yields a nil API table returned an error and no plugin, and
\* the table holds no entry for it.
C12_NilApiIsLoadFailure ==
    \A i \in 1..Len(ret) :
        LibStatus(ret[i].name) = "nilApi"
        => /\ ret[i].err
           /\ ret[i].plugin = NoPlugin
           /\ ret[i].name \notin DOMAIN loadedPlugins

\* ----------------------------------------------------------- SpecArena
\* The calls a holder makes. newArena: a size that is not a multiple of the
\* alignment and the size TestArena uses. arenaAlloc: cSizeOf[T]() for
\* struct{}, int32, int and [512]int. arenaAllocSlice: <<cSizeOf[T](), n>>
\* for []byte of 9 and of 0 and []float64 of 512. Get: a target below the
\* minimum, one between two pooled sizes, a pooled size, the largest pooled
\* size and one byte more.
NextArena ==
    \/ \E size \in {20, 1024} : NewArena(size) /\ UNCHANGED <<builderVars, pluginVars, flockVars, bufferVars, linkVars>>
    \/ \E a \in 1..MaxArenas, allocSize \in {0, 4, 8, 4096} :
          ArenaAlloc(a, allocSize) /\ UNCHANGED <<builderVars, pluginVars, flockVars, bufferVars, linkVars>>
    \/ \E a \in 1..MaxArenas, r \in {<<1, 9>>, <<1, 0>>, <<8, 512>>} :
          ArenaAllocSlice(a, r[1], r[2]) /\ UNCHANGED <<builderVars, pluginVars, flockVars, bufferVars, linkVars>>
    \/ \E a \in 1..MaxArenas : ArenaFree(a) /\ UNCHANGED <<builderVars, pluginVars, flockVars, bufferVars, linkVars>>
    \/ \E a \in 1..MaxArenas : ArenaReset(a) /\ UNCHANGED <<builderVars, pluginVars, flockVars, bufferVars, linkVars>>
    \/ \E targetSize \in {0, 2049, 4096, maxPooledArenaSize, maxPooledArenaSize + 1},
          pid \in Procs :
          PoolGet(targetSize, pid) /\ UNCHANGED <<builderVars, pluginVars, flockVars, bufferVars, linkVars>>
    \/ \E a \in 1..MaxArenas, pid \in Procs :
          PoolReturn(a, pid) /\ UNCHANGED <<builderVars, pluginVars, flockVars, bufferVars, linkVars>>

SpecArena == InitPlugin /\ [][NextArena]_vars

\* The arena the last call was about.
CallArena == arenas[arenaCall.arena]
AllocCall == arenaCall.op \in {"arenaAlloc", "arenaAllocSlice"}

\* C13: in every arena, the regions handed out since its last Reset begin
\* with one at offset 0, each starts at a multiple of 8 and ends within the
\* arena's size, and no two of them share a byte.
C13_RegionsAlignedDisjoint ==
    \A a \in 1..Len(arenas) :
        LET r == arenas[a].regions
        IN  /\ r # <<>> => r[1][1] = 0
            /\ \A i \in 1..Len(r) :
                  /\ r[i][1] % arenaAlignBytes = 0
                  /\ r[i][1] >= 0
                  /\ r[i][1] + r[i][2] <= arenas[a].size
            /\ \A i, j \in 1..Len(r) :
                  i < j => \/ r[i][1] + r[i][2] <= r[j][1]
                           \/ r[j][1] + r[j][2] <= r[i][1]

\* An arena has handed out three regions, one of them of a length that is
\* not a multiple of 8.
C13_Witness ==
    \E a \in 1..Len(arenas) :
        /\ Len(arenas[a].regions) >= 3
        /\ \E i \in 1..Len(arenas[a].regions) :
              arenas[a].regions[i][2] % arenaAlignBytes # 0

\* C14: an arenaAlloc or arenaAllocSlice call that needs more bytes than
\* lie between the arena's current mark and its size panics and hands out
\* no region.
C14_ExhaustionAborts ==
    (AllocCall /\ arenaCall.need > arenaCall.remain)
    => arenaCall.result = "panic"

\* A request that does not fit in what is left of an arena in use.
C14_Witness ==
    /\ AllocCall
    /\ ~arenaCall.freed
    /\ arenaCall.remain > 0
    /\ arenaCall.remain < CallArena.size
    /\ arenaCall.need > arenaCall.remain
    /\ arenaCall.result = "panic"

\* C15: an arenaAlloc, arenaAllocSlice or Reset call on an arena on which
\* Free had been called before ends in an error.
C15_UseAfterFreeIsError ==
    (arenaCall.op \in {"arenaAlloc", "arenaAllocSlice", "Reset"} /\ arenaCall.freed)
    => arenaCall.result = "panic"

\* The smallest pooled size, a power of two from 2^minShift to 2^maxShift,
\* that is at least s.
SmallestPooled(s) ==
    LET k == CHOOSE k \in minShift..maxShift :
                 /\ 2^k >= s
                 /\ \A j \in minShift..maxShift : 2^j >= s => k <= j
    IN  2^k

\* C16: the arena returned by Get(s) has size at least s, and for s up to
\* maxPooledArenaSize its size is the smallest pooled power of two that is
\* at least s.
C16_GetCapacity ==
    arenaCall.op = "Get"
    => /\ CallArena.size >= arenaCall.target
       /\ arenaCall.target <= maxPooledArenaSize
          => CallArena.size = SmallestPooled(arenaCall.target)

\* Get hands out an arena for a target that is a pooled size above the
\* minimum.
C16_Witness ==
    /\ arenaCall.op = "Get"
    /\ arenaCall.target > minPooledArenaSize
    /\ arenaCall.target = CallArena.size

\* C17: an arena that Get hands out after it had been returned to the pool
\* has its current mark at 0 and none of its bytes left written.
C17_ReusedArenaZeroed ==
    (arenaCall.op = "Get" /\ CallArena.returnedWith >= 0)
    => /\ CallArena.current = 0
       /\ CallArena.written = {}

\* Get hands out an arena whose last holder had allocated from it.
C17_Witness ==
    /\ arenaCall.op = "Get"
    /\ CallArena.returnedWith > 0

\* ----------------------------------------------------------- SpecFlock
NextFlock ==
    \/ \E c \in Callers, fsOk \in BOOLEAN :
          checkInstallOrFileLock(c, fsOk) /\ UNCHANGED <<builderVars, pluginVars, arenaVars, bufferVars, linkVars>>
    \/ \E c \in Callers, fsOk \in BOOLEAN :
          TryLock(c, fsOk) /\ UNCHANGED <<builderVars, pluginVars, arenaVars, bufferVars, linkVars>>
    \/ \E c \in Callers, timedOut \in BOOLEAN :
          Select(c, timedOut) /\ UNCHANGED <<builderVars, pluginVars, arenaVars, bufferVars, linkVars>>
    \/ \E c \in Callers : Install(c) /\ UNCHANGED <<builderVars, pluginVars, arenaVars, bufferVars, linkVars>>
    \/ \E c \in Callers : FileUnlock(c) /\ UNCHANGED <<builderVars, pluginVars, arenaVars, bufferVars, linkVars>>
    \/ Tick /\ UNCHANGED <<builderVars, pluginVars, arenaVars, bufferVars, linkVars>>

SpecFlock == InitPlugin /\ [][NextFlock]_vars

\* The callers that were returned a lock and have not unlocked it.
LockHolders == {c \in Callers : callers[c].pc = "holding"}

\* C18: at most one caller at a time holds a lock returned by
\* checkInstallOrFileLock for the target, and a lock is returned with
\* isInstalled false and no error.
C18_OneLockHolder ==
    /\ Cardinality(LockHolders) <= 1
    /\ \A c \in LockHolders :
          /\ lockFile.holder = c
          /\ callers[c].result.lock
          /\ ~callers[c].result.isInstalled
          /\ ~callers[c].result.err
    /\ \A c \in Callers : callers[c].result.lock => callers[c].result.kind = "locked"

\* One caller holds the lock while the other, whose attempt was refused,
\* waits in its select.
C18_Witness ==
    \E c, d \in Callers :
        /\ callers[c].pc = "holding"
        /\ callers[d].pc = "select"
        /\ callers[d].retry > clock

\* C19: a caller that finds the lock taken at every attempt is not kept
\* waiting past InstallationFileLockTimeout seconds after its timer was
\* set, and the call that gives up returns exactly then, with an error,
\* isInstalled false and no lock.
C19_TimeoutBound ==
    \A c \in Callers :
        /\ callers[c].pc \in {"trylock", "select"}
           => clock <= callers[c].t0 + InstallationFileLockTimeout
        /\ callers[c].result.kind = "timeout"
           => /\ callers[c].result.at = callers[c].t0 + InstallationFileLockTimeout
              /\ callers[c].result.err
              /\ ~callers[c].result.isInstalled
              /\ ~callers[c].result.lock

\* A caller has timed out while another caller still holds the lock.
C19_Witness ==
    \E c, d \in Callers :
        /\ callers[c].result.kind = "timeout"
        /\ callers[d].pc = "holding"

\* C27: when two auto-install invocations for the same plugin, not installed
\* yet, overlap, the installation is performed at most once: the invocation
\* that gets the lock after the other one has installed does not install.
C27_InstalledAtMostOnce == Cardinality(lockFile.installedBy) <= 1

\* ---------------------------------------------------------- SpecBuffer
NextBuffer ==
    \/ \E b \in Buffers :
          NewBuffer(b) /\ UNCHANGED <<builderVars, pluginVars, arenaVars, flockVars, linkVars>>
    \/ \E b \in Buffers :
          BufferDestroy(b) /\ UNCHANGED <<builderVars, pluginVars, arenaVars, flockVars, linkVars>>
    \/ ClientDestroy /\ UNCHANGED <<builderVars, pluginVars, arenaVars, flockVars, linkVars>>

SpecBuffer == InitPlugin /\ [][NextBuffer]_vars

\* C20: Destroy of a buffer whose client was destroyed before returns
\* success, leaves the handle destroyed and asks nothing of the runtime:
\* the memory, which the client released, is not released a second time.
C20_DestroyAfterClientIsNoOp ==
    /\ (bufCall.op = "BufferDestroy" /\ bufCall.clientGone)
       => /\ bufCall.result = "ok"
          /\ buffers[bufCall.buf].handle = "destroyed"
          /\ buffers[bufCall.buf].released = bufCall.released
          /\ client = [destroyed |-> TRUE, tracked |-> {}]
    /\ \A b \in Buffers : buffers[b].released <= 1

\* The test's buffer2: a valid buffer, which the client released when it
\* was destroyed, has just been destroyed.
C20_Witness ==
    /\ bufCall.op = "BufferDestroy"
    /\ bufCall.clientGone
    /\ bufCall.handle = "valid"
    /\ bufCall.released = 1

\* ------------------------------------------------------------ SpecFold
\* Function main holding the constants of FoldLiterals.
InitFold ==
    /\ Returned = [f \in Fns |-> FALSE]
    /\ Statements = [f \in Fns |->
          IF f = "main"
          THEN [i \in 1..Len(FoldLiterals) |->
                   [OpType |-> "Constant", Inputs |-> <<>>, Outputs |-> <<i>>,
                    Attributes |-> [value |-> [dtype |-> "i32",
                                               dims  |-> FoldLiterals[i].dims,
                                               value |-> FoldLiterals[i].value]]]]
          ELSE <<>>]
    /\ Values = [i \in 1..Len(FoldLiterals) |->
                    [fn |-> "main", shape |-> MakeShape("i32", FoldLiterals[i].dims),
                     stmt |-> i, outputIndex |-> 0]]
    /\ lastCall = NoCall
    /\ lastExtract = NoExtraction
    /\ PluginIdle
    /\ ArenaIdle
    /\ FlockIdle
    /\ BufferIdle
    /\ LinkIdle

NextFold ==
    \/ /\ CanFold
       /\ \E l, r \in ValueIds :
             Multiply(l, r) /\ UNCHANGED <<pluginVars, arenaVars, flockVars, bufferVars, linkVars>>
    \/ /\ CanFold
       /\ \E l, r \in ValueIds :
             Divide(l, r) /\ UNCHANGED <<pluginVars, arenaVars, flockVars, bufferVars, linkVars>>
    \/ /\ CanFold
       /\ \E o, i \in ValueIds :
             Gather(o, i) /\ UNCHANGED <<pluginVars, arenaVars, flockVars, bufferVars, linkVars>>
    \/ \E v \in ValueIds :
          Extract(v) /\ UNCHANGED <<pluginVars, arenaVars, flockVars, bufferVars, linkVars>>

SpecFold == InitFold /\ [][NextFold]_vars

\* The last call was an extraction of a value that the given operation
\* produced.
ExtractedStmt == Statements[lastExtract.fn][DefiningStmt(lastExtract.fn, lastExtract.value)]
ExtractOf(opType) ==
    /\ lastCall.op = "Extract"
    /\ DefiningStmt(lastExtract.fn, lastExtract.value) # 0
    /\ ExtractedStmt.OpType = opType
\* What the operands of that statement extract to.
FoldLhs == tryExtractConstantShape(lastExtract.fn, ExtractedStmt.Inputs[1])
FoldRhs == tryExtractConstantShape(lastExtract.fn, ExtractedStmt.Inputs[2])
\* The i-th entry of a vector, a vector of one entry standing for a scalar.
Elem(s, i) == IF Len(s) = 1 THEN s[1] ELSE s[i]
FoldLen == IF Len(FoldLhs.vals) > Len(FoldRhs.vals) THEN Len(FoldLhs.vals) ELSE Len(FoldRhs.vals)
Foldable ==
    /\ FoldLhs.ok /\ FoldRhs.ok
    /\ \/ Len(FoldLhs.vals) = Len(FoldRhs.vals)
       \/ Len(FoldLhs.vals) = 1
       \/ Len(FoldRhs.vals) = 1
    /\ FoldLen > 0

C23_FoldsElementWiseAndBroadcast ==
    /\ (ExtractOf("Multiply") /\ Foldable)
       => lastExtract.result =
             Extracted([i \in 1..FoldLen |-> Elem(FoldLhs.vals, i) * Elem(FoldRhs.vals, i)])
    /\ (ExtractOf("Divide") /\ Foldable
        /\ \A i \in 1..Len(FoldRhs.vals) : FoldRhs.vals[i] # 0)
       => lastExtract.result =
             Extracted([i \in 1..FoldLen |-> quo(Elem(FoldLhs.vals, i), Elem(FoldRhs.vals, i))])

\* C24: a Divide of two constant operands one of whose divisors is zero
\* is not extractable, and the extraction does not abort.
C24_DivideByZeroNotExtractable ==
    (/\ ExtractOf("Divide")
     /\ FoldLhs.ok /\ FoldRhs.ok
     /\ \E i \in 1..Len(FoldRhs.vals) : FoldRhs.vals[i] = 0)
    => lastExtract.result = NotConst

\* A Divide of one constant by the constant zero has been extracted.
C24_Witness ==
    /\ ExtractOf("Divide")
    /\ FoldLhs.ok /\ Len(FoldLhs.vals) = 1
    /\ FoldRhs.ok /\ FoldRhs.vals = <<0>>

\* C25: a Gather whose index operand is a constant of rank other than 0
\* is not extractable.
C25_GatherNeedsScalarIndex ==
    (/\ ExtractOf("Gather")
     /\ FoldRhs.ok
     /\ Rank(ShapeOf(ExtractedStmt.Inputs[2])) # 0)
    => lastExtract.result = NotConst

\* ------------------------------------------------------------ SpecLink
\* Two goroutines on two Ps borrow nodes from one pool and give them back.
NextLink ==
    \/ \E g \in Workers : Get(g) /\ UNCHANGED <<builderVars, pluginVars, arenaVars, flockVars, bufferVars>>
    \/ \E g \in Workers : GetRead(g) /\ UNCHANGED <<builderVars, pluginVars, arenaVars, flockVars, bufferVars>>
    \/ \E g \in Workers : GetNext(g) /\ UNCHANGED <<builderVars, pluginVars, arenaVars, flockVars, bufferVars>>
    \/ \E g \in Workers : GetHead(g) /\ UNCHANGED <<builderVars, pluginVars, arenaVars, flockVars, bufferVars>>
    \/ \E g \in Workers : GetClear(g) /\ UNCHANGED <<builderVars, pluginVars, arenaVars, flockVars, bufferVars>>
    \/ \E g \in Workers : GetUnpin(g) /\ UNCHANGED <<builderVars, pluginVars, arenaVars, flockVars, bufferVars>>
    \/ \E g \in Workers : GetReturn(g) /\ UNCHANGED <<builderVars, pluginVars, arenaVars, flockVars, bufferVars>>
    \/ \E g \in Workers, node \in Nodes \cup {NoNode} :
          Put(g, node) /\ UNCHANGED <<builderVars, pluginVars, arenaVars, flockVars, bufferVars>>
    \/ \E g \in Workers : PutNext(g) /\ UNCHANGED <<builderVars, pluginVars, arenaVars, flockVars, bufferVars>>
    \/ \E g \in Workers : PutHead(g) /\ UNCHANGED <<builderVars, pluginVars, arenaVars, flockVars, bufferVars>>
    \/ \E g \in Workers : PutUnpin(g) /\ UNCHANGED <<builderVars, pluginVars, arenaVars, flockVars, bufferVars>>

SpecLink == InitPlugin /\ [][NextLink]_vars

\* C26: whatever the interleaving of Get and Put on one pool, with every
\* borrowed node Put at most once by its borrower, no node is held by two
\* borrowers at the same time.
C26_NoNodeHeldTwice ==
    \A g, h \in Workers : g # h => workers[g].holds \cap workers[h].holds = {}

\* A borrower that holds a node already takes a second one that went through
\* the pool, while the other goroutine is pinned inside Put on the other P.
C26_Witness ==
    \E g, h \in Workers :
        /\ g # h
        /\ workers[g].pc = "get_new" /\ workers[g].node # NoNode
        /\ workers[g].holds # {}
        /\ workers[h].pc = "put_head"

====
